---------------------------- MODULE Spec2Model ----------------------------
(***************************************************************************)
(* A model of the SQLite state store (package component): the table of     *)
(* records, the SQL statements the engine issues, the request builders     *)
(* and the public operations Get / Set / Delete / ExecuteMulti together    *)
(* with the expiration cleanup.                                            *)
(*                                                                         *)
(* Representation.  A Go string is a TLA+ string, except where the code   *)
(* looks inside it: a request value and a table name are the sequence of   *)
(* their bytes, a TTL or cleanup interval a sequence of one-character      *)
(* strings, so that json, base64, validIdentifier and strconv.ParseInt can *)
(* be computed.  A Go pointer (or optional map entry) is a sequence: <<>>  *)
(* is nil, <<x>> points to x.  A timestamp is a number of seconds.  SQL    *)
(* NULL in expiration_time is the value NULL.  The table is a function     *)
(* from the keys that have a row to their rows.                            *)
(*                                                                         *)
(* Specifications.  Spec runs the operations one call at a time, each as   *)
(* one step, with every kind of request and database fault.  SpecValues    *)
(* does so for Set and Get with values of both kinds.  SpecInit runs Init  *)
(* and Close from a new engine on.  SpecConcurrent runs two callers and    *)
(* the cleanup goroutine side by side, one statement of Set, Get and       *)
(* cleanupTimeout at a time, under a.lock.  SpecEngine does so for Set,    *)
(* Delete, ExecuteMulti, Get, the select loop of the cleanup goroutine and *)
(* Close; SpecEngineFair adds the scheduling.  SpecBulk runs BulkSet and   *)
(* BulkDelete of the store, one call a step.  SpecSchedule starts the      *)
(* engine with each kind of cleanup interval and runs one caller, the      *)
(* cleanup goroutine and Close; SpecScheduleFair adds the scheduling and   *)
(* a ticker that keeps firing.                                             *)
(***************************************************************************)
EXTENDS Integers, Sequences, FiniteSets, TLC

\* Bounds of the model.
MaxTime == 2
MaxUUID == 2
MaxBatch == 2
MaxWrites == 3
MaxOpen == 2
MaxEngineTime == 1
MaxEngineWrites == 1

\* Program constants.
metadataTTLKey == "ttlInSeconds"
defaultTableName == <<115, 116, 97, 116, 101>>    \* "state"
defaultCleanupInternalInSec == 3600
FirstWrite == "first-write"
LastWrite == "last-write"
Upsert == "upsert"
DeleteOp == "delete"

Keys == {"a", "b"}
NULL == -1

Nil == <<>>
Ptr(x) == <<x>>

VARIABLES table, now, nextUUID, stored, deadline, last, lock, proc, held, wins,
          a, sqlite, reclaimers

vars == <<table, now, nextUUID, stored, deadline, last, lock, proc, held, wins,
          a, sqlite, reclaimers>>

\* The engine: a is the struct sqliteDBAccess, sqlite the database it opens
\* (the handles sql.Open returned, the tables of the file, the number of SQL
\* statements issued), reclaimers the number of cleanup goroutines started.
engine == <<a, sqlite, reclaimers>>

\* The variables of the callers that run side by side.
goroutines == <<lock, proc, held, wins>>

--------------------------------------------------------------------------
\* Errors.  kind "ETagMismatch" is state.NewETagError(state.ETagMismatch, _);
\* every other error is a plain Go error, told apart by its message.
NoErr == [kind |-> "nil", msg |-> ""]
Err(m) == [kind |-> "error", msg |-> m]
ETagErr == [kind |-> "ETagMismatch", msg |-> "possible etag mismatch"]
IsErr(e) == e.kind # "nil"
\* A panic that nothing recovers: the call does not return.
Panic(m) == [kind |-> "panic", msg |-> m]

--------------------------------------------------------------------------
\* strconv.ParseInt(val, 10, 0) on a sequence of characters.
Digit == [c \in {"0", "1", "2", "3", "4", "5", "6", "7", "8", "9"} |->
            CASE c = "0" -> 0 [] c = "1" -> 1 [] c = "2" -> 2 [] c = "3" -> 3
              [] c = "4" -> 4 [] c = "5" -> 5 [] c = "6" -> 6 [] c = "7" -> 7
              [] c = "8" -> 8 [] c = "9" -> 9]

RECURSIVE Magnitude(_)
Magnitude(s) ==
    IF s = <<>> THEN 0
    ELSE 10 * Magnitude(SubSeq(s, 1, Len(s) - 1)) + Digit[s[Len(s)]]

ParseInt(s) ==
    LET signed == Len(s) > 0 /\ s[1] \in {"+", "-"}
        body == IF signed THEN Tail(s) ELSE s
    IN  IF body = <<>> \/ \E i \in 1..Len(body) : body[i] \notin DOMAIN Digit
        THEN [ok |-> FALSE, val |-> 0]
        ELSE [ok |-> TRUE,
              val |-> IF signed /\ s[1] = "-" THEN 0 - Magnitude(body)
                      ELSE Magnitude(body)]

\* A variant of the generator that returns the same UUID every time.
UUIDString_constant(n) == "uuid-1"

\* uuid.NewRandom().String(): the n-th UUID the generator returns.  Random
\* 122-bit values are taken to be pairwise distinct.
UUIDString(n) == "uuid-" \o ToString(n)

\* The values of a request (interface{}): a Go string, a []byte, nil.  A
\* string and a []byte are the sequence of their bytes (0..255); "x" is
\* <<120>>, and the column value holds the bytes of the JSON text.
Str(x) == [type |-> "string", s |-> x]
Bytes(x) == [type |-> "bytes", s |-> x]
NilValue == [type |-> "nil", s |-> <<>>]

\* base64.StdEncoding: the alphabet, EncodeToString and DecodeString.
encodeStd ==
    [i \in 1..64 |-> IF i <= 26 THEN 64 + i          \* A..Z
                     ELSE IF i <= 52 THEN 70 + i     \* a..z
                     ELSE IF i <= 62 THEN i - 5      \* 0..9
                     ELSE IF i = 63 THEN 43 ELSE 47] \* + and /
StdPadding == 61
Sextet(v, i) == encodeStd[((v \div (64 ^ (3 - i))) % 64) + 1]

\* The four characters of a group of one, two or three bytes.
EncodeGroup(b) ==
    IF Len(b) = 3
    THEN <<Sextet(b[1] * 65536 + b[2] * 256 + b[3], 0),
           Sextet(b[1] * 65536 + b[2] * 256 + b[3], 1),
           Sextet(b[1] * 65536 + b[2] * 256 + b[3], 2),
           Sextet(b[1] * 65536 + b[2] * 256 + b[3], 3)>>
    ELSE IF Len(b) = 2
    THEN <<Sextet(b[1] * 65536 + b[2] * 256, 0), Sextet(b[1] * 65536 + b[2] * 256, 1),
           Sextet(b[1] * 65536 + b[2] * 256, 2), StdPadding>>
    ELSE <<Sextet(b[1] * 65536, 0), Sextet(b[1] * 65536, 1), StdPadding, StdPadding>>

RECURSIVE EncodeToString(_)
EncodeToString(b) ==
    IF b = <<>> THEN <<>>
    ELSE IF Len(b) <= 3 THEN EncodeGroup(b)
    ELSE EncodeGroup(SubSeq(b, 1, 3)) \o EncodeToString(SubSeq(b, 4, Len(b)))

\* The number of a character of the alphabet, -1 for any other character.
decodeMap(c) ==
    IF \E i \in 1..64 : encodeStd[i] = c
    THEN (CHOOSE i \in 1..64 : encodeStd[i] = c) - 1 ELSE -1

\* The bytes of a group of four characters, of which the last one or two
\* may be padding; ok is false for a character outside the alphabet.
DecodeGroup(g, final) ==
    IF decodeMap(g[1]) < 0 \/ decodeMap(g[2]) < 0 THEN [ok |-> FALSE, val |-> <<>>]
    ELSE IF final /\ g[3] = StdPadding /\ g[4] = StdPadding
    THEN [ok |-> TRUE, val |-> <<(decodeMap(g[1]) * 64 + decodeMap(g[2])) \div 16>>]
    ELSE IF decodeMap(g[3]) < 0 THEN [ok |-> FALSE, val |-> <<>>]
    ELSE IF final /\ g[4] = StdPadding
    THEN [ok |-> TRUE,
          val |-> <<(decodeMap(g[1]) * 64 + decodeMap(g[2])) \div 16,
                    ((decodeMap(g[2]) * 64 + decodeMap(g[3])) \div 4) % 256>>]
    ELSE IF decodeMap(g[4]) < 0 THEN [ok |-> FALSE, val |-> <<>>]
    ELSE [ok |-> TRUE,
          val |-> <<(decodeMap(g[1]) * 64 + decodeMap(g[2])) \div 16,
                    ((decodeMap(g[2]) * 64 + decodeMap(g[3])) \div 4) % 256,
                    (decodeMap(g[3]) * 64 + decodeMap(g[4])) % 256>>]

\* A decoded group g followed by the decoded rest.
DecodeThen(g, rest) ==
    IF g.ok /\ rest.ok THEN [ok |-> TRUE, val |-> g.val \o rest.val]
    ELSE [ok |-> FALSE, val |-> <<>>]

RECURSIVE DecodeString(_)
DecodeString(s) ==
    IF s = <<>> THEN [ok |-> TRUE, val |-> <<>>]
    ELSE IF Len(s) < 4 THEN [ok |-> FALSE, val |-> <<>>]
    ELSE DecodeThen(DecodeGroup(SubSeq(s, 1, 4), Len(s) = 4),
                    DecodeString(SubSeq(s, 5, Len(s))))

\* encoding/json on strings.  json.Marshal puts a string between quotes and
\* escapes the quote, the backslash and the HTML characters; the model has
\* the first two and "<" (60).
Quote == 34
Backslash == 92
u003c == <<117, 48, 48, 51, 99>>
null == <<110, 117, 108, 108>>
EscapeChar(c) ==
    IF c = Quote THEN <<Backslash, Quote>>
    ELSE IF c = Backslash THEN <<Backslash, Backslash>>
    ELSE IF c = 60 THEN <<Backslash>> \o u003c
    ELSE <<c>>

RECURSIVE Escape(_)
Escape(s) == IF s = <<>> THEN <<>> ELSE EscapeChar(Head(s)) \o Escape(Tail(s))

\* json.Unmarshal into a string of the text between the quotes.
RECURSIVE Unescape(_)
Unescape(s) ==
    IF s = <<>> THEN [ok |-> TRUE, val |-> <<>>]
    ELSE IF s[1] = Quote THEN [ok |-> FALSE, val |-> <<>>]
    ELSE IF s[1] # Backslash THEN DecodeThen([ok |-> TRUE, val |-> <<s[1]>>], Unescape(Tail(s)))
    ELSE IF Len(s) >= 2 /\ s[2] \in {Quote, Backslash}
    THEN DecodeThen([ok |-> TRUE, val |-> <<s[2]>>], Unescape(SubSeq(s, 3, Len(s))))
    ELSE IF Len(s) >= 6 /\ SubSeq(s, 2, 6) = u003c
    THEN DecodeThen([ok |-> TRUE, val |-> <<60>>], Unescape(SubSeq(s, 7, Len(s))))
    ELSE [ok |-> FALSE, val |-> <<>>]

\* json.Unmarshal([]byte(value), &s) for a string s: null leaves s empty.
Unmarshal(text) ==
    IF text = null THEN [ok |-> TRUE, val |-> <<>>]
    ELSE IF Len(text) >= 2 /\ text[1] = Quote /\ text[Len(text)] = Quote
    THEN Unescape(SubSeq(text, 2, Len(text) - 1))
    ELSE [ok |-> FALSE, val |-> <<>>]

\* json.Marshal of a request value (utils.Marshal passes a non-[]byte value
\* to the marshaler): the text, as a sequence of bytes.
Marshal(v) ==
    IF v.type = "nil" THEN null
    ELSE <<Quote>> \o Escape(v.s) \o <<Quote>>

--------------------------------------------------------------------------
\* The SQL statements, as functions of the table inside the transaction.
\* Each gives the table after the statement and the rows it affected.

\* The read predicate of getValueTpl.
Live(row, t) == row.expiration_time = NULL \/ row.expiration_time > t

\* DATETIME(CURRENT_TIMESTAMP, '+%d seconds')
expirationTpl(seconds, t) == t + seconds

\* A variant of the INSERT OR REPLACE without the lookup of creation_time:
\* the column takes its default.
setValueTpl_defaultCreationTime(tbl, key, value, isBinary, etag, expiration, t) ==
    LET row == [value |-> value, is_binary |-> isBinary, etag |-> etag,
                update_time |-> t, expiration_time |-> expiration,
                creation_time |-> t]
    IN  [rows |-> 1,
         tbl |-> [k \in DOMAIN tbl \cup {key} |-> IF k = key THEN row ELSE tbl[k]]]

\* INSERT OR REPLACE ... creation_time = (SELECT creation_time ... WHERE key=?);
\* a NULL creation_time (no such row) is replaced by the column default,
\* CURRENT_TIMESTAMP, by the REPLACE conflict resolution.
setValueTpl(tbl, key, value, isBinary, etag, expiration, t) ==
    LET row == [value |-> value, is_binary |-> isBinary, etag |-> etag,
                update_time |-> t, expiration_time |-> expiration,
                creation_time |-> IF key \in DOMAIN tbl
                                  THEN tbl[key].creation_time ELSE t]
    IN  [rows |-> 1,
         tbl |-> [k \in DOMAIN tbl \cup {key} |-> IF k = key THEN row ELSE tbl[k]]]

\* Variants of the UPDATE statement, for the sensitivity of the properties:
\* one leaves the etag column out of the SET list, one merges the expiration
\* (a NULL keeps the old one), one leaves the eTag out of the WHERE clause.
setValueWithETagTpl_keepsETag(tbl, value, newEtag, isBinary, expiration, key, etag, t) ==
    IF key \in DOMAIN tbl /\ tbl[key].etag = etag
    THEN [rows |-> 1,
          tbl |-> [tbl EXCEPT ![key] =
                     [@ EXCEPT !.value = value,
                               !.is_binary = isBinary, !.update_time = t,
                               !.expiration_time = expiration]]]
    ELSE [rows |-> 0, tbl |-> tbl]

setValueWithETagTpl_mergesExpiration(tbl, value, newEtag, isBinary, expiration, key, etag, t) ==
    IF key \in DOMAIN tbl /\ tbl[key].etag = etag
    THEN [rows |-> 1,
          tbl |-> [tbl EXCEPT ![key] =
                     [@ EXCEPT !.value = value, !.etag = newEtag,
                               !.is_binary = isBinary, !.update_time = t,
                               !.expiration_time =
                                   IF expiration = NULL THEN @ ELSE expiration]]]
    ELSE [rows |-> 0, tbl |-> tbl]

setValueWithETagTpl_byKeyAlone(tbl, value, newEtag, isBinary, expiration, key, etag, t) ==
    IF key \in DOMAIN tbl
    THEN [rows |-> 1,
          tbl |-> [tbl EXCEPT ![key] =
                     [@ EXCEPT !.value = value, !.etag = newEtag,
                               !.is_binary = isBinary, !.update_time = t,
                               !.expiration_time = expiration]]]
    ELSE [rows |-> 0, tbl |-> tbl]

\* UPDATE ... SET value, etag, is_binary, update_time, expiration_time
\* WHERE key = ? AND eTag = ?
setValueWithETagTpl(tbl, value, newEtag, isBinary, expiration, key, etag, t) ==
    IF key \in DOMAIN tbl /\ tbl[key].etag = etag
    THEN [rows |-> 1,
          tbl |-> [tbl EXCEPT ![key] =
                     [@ EXCEPT !.value = value, !.etag = newEtag,
                               !.is_binary = isBinary, !.update_time = t,
                               !.expiration_time = expiration]]]
    ELSE [rows |-> 0, tbl |-> tbl]

\* DELETE FROM %s WHERE key = ?
delValueTpl(tbl, key) ==
    IF key \in DOMAIN tbl
    THEN [rows |-> 1, tbl |-> [k \in DOMAIN tbl \ {key} |-> tbl[k]]]
    ELSE [rows |-> 0, tbl |-> tbl]

\* DELETE FROM %s WHERE key = ? and etag = ?
delValueWithETagTpl(tbl, key, etag) ==
    IF key \in DOMAIN tbl /\ tbl[key].etag = etag
    THEN [rows |-> 1, tbl |-> [k \in DOMAIN tbl \ {key} |-> tbl[k]]]
    ELSE [rows |-> 0, tbl |-> tbl]

\* A variant of the DELETE without the condition IS NOT NULL, in a database
\* that orders NULL before every time.
cleanupTimeoutStmtTpl_nullIsPast(tbl, t) ==
    LET gone == {k \in DOMAIN tbl : tbl[k].expiration_time = NULL
                                     \/ tbl[k].expiration_time < t}
    IN  [rows |-> Cardinality(gone), tbl |-> [k \in DOMAIN tbl \ gone |-> tbl[k]]]

\* DELETE FROM %s WHERE expiration_time IS NOT NULL
\*   AND expiration_time < CURRENT_TIMESTAMP
cleanupTimeoutStmtTpl(tbl, t) ==
    LET gone == {k \in DOMAIN tbl : tbl[k].expiration_time # NULL
                                     /\ tbl[k].expiration_time < t}
    IN  [rows |-> Cardinality(gone), tbl |-> [k \in DOMAIN tbl \ gone |-> tbl[k]]]

\* A variant of the SELECT without the condition on expiration_time.
getValueTpl_anyRow(tbl, key, t) ==
    IF key \in DOMAIN tbl THEN <<tbl[key]>> ELSE <<>>

\* SELECT value, is_binary, etag FROM %s WHERE key = ?
\*   AND (expiration_time IS NULL OR expiration_time > CURRENT_TIMESTAMP)
getValueTpl(tbl, key, t) ==
    IF key \in DOMAIN tbl /\ Live(tbl[key], t) THEN <<tbl[key]>> ELSE <<>>

--------------------------------------------------------------------------
\* The request builders.

\* A variant of parseTTL that takes every negative TTL for "never expire".
parseTTL_anyNegative(requestMetadata) ==
    IF metadataTTLKey \in DOMAIN requestMetadata /\ requestMetadata[metadataTTLKey] # <<>>
    THEN LET p == ParseInt(requestMetadata[metadataTTLKey])
         IN  IF ~p.ok THEN [err |-> Err("error in parsing ttl metadata"), ttl |-> Nil]
             ELSE IF p.val < 0 THEN [err |-> NoErr, ttl |-> Nil]
             ELSE [err |-> NoErr, ttl |-> Ptr(p.val)]
    ELSE [err |-> NoErr, ttl |-> Nil]

\* parseTTL: <<>> (nil) means never expire, <<n>> a TTL of n seconds.
parseTTL(requestMetadata) ==
    IF metadataTTLKey \in DOMAIN requestMetadata /\ requestMetadata[metadataTTLKey] # <<>>
    THEN LET p == ParseInt(requestMetadata[metadataTTLKey])
         IN  IF ~p.ok THEN [err |-> Err("error in parsing ttl metadata"), ttl |-> Nil]
             ELSE IF p.val < -1 THEN [err |-> Err("incorrect value for ttlInSeconds"), ttl |-> Nil]
             ELSE IF p.val = -1 THEN [err |-> NoErr, ttl |-> Nil]
             ELSE [err |-> NoErr, ttl |-> Ptr(p.val)]
    ELSE [err |-> NoErr, ttl |-> Nil]

\* state.CheckRequestOptions, as far as the concurrency option goes.
CheckRequestOptions(concurrency) ==
    IF concurrency \notin {"", FirstWrite, LastWrite}
    THEN Err("unrecognized concurrency model") ELSE NoErr

\* checkRequestOptions: the error, and the request as the function leaves it
\* (it clears the caller's ETag under LastWrite).
checkRequestOptions(req) ==
    IF IsErr(CheckRequestOptions(req.Concurrency))
    THEN [err |-> CheckRequestOptions(req.Concurrency), req |-> req]
    ELSE IF req.Concurrency = FirstWrite
    THEN IF req.ETag = Nil \/ req.ETag[1] = ""
         THEN [err |-> Err("when FirstWrite is to be enforced, a value must be provided for the ETag"),
               req |-> req]
         ELSE [err |-> NoErr, req |-> req]
    ELSE IF req.Concurrency = LastWrite
    THEN [err |-> NoErr, req |-> [req EXCEPT !.ETag = Nil]]
    ELSE [err |-> NoErr, req |-> req]

\* prepareSetRequest: the value handed to the marshaler, a []byte as the
\* string of its base64 encoding.
requestValue(v) == IF v.type = "bytes" THEN Str(EncodeToString(v.s)) ELSE v

\* prepareSetRequest, from the answer c of checkRequestOptions and the
\* answer ttl of parseTTL on: the error, the parsed setRequest and the
\* request as checkRequestOptions left it.
NoSetRequest ==
    [key |-> "", value |-> <<>>, isBinary |-> FALSE, ttlSeconds |-> Nil, etag |-> Nil]
prepareSetRequest_build(c, ttl) ==
    IF IsErr(c.err) THEN [err |-> c.err, r |-> NoSetRequest, req |-> c.req]
    ELSE IF c.req.Key = ""
    THEN [err |-> Err("missing key in set option"), r |-> NoSetRequest, req |-> c.req]
    ELSE IF c.req.Value.type = "string" /\ c.req.Value.s = <<>>
    THEN [err |-> Err("empty string is not allowed in set operation"),
          r |-> NoSetRequest, req |-> c.req]
    ELSE IF IsErr(ttl.err)
    THEN [err |-> Err("error in parsing TTL"), r |-> NoSetRequest, req |-> c.req]
    ELSE [err |-> NoErr,
          r |-> [key |-> c.req.Key, value |-> Marshal(requestValue(c.req.Value)),
                 isBinary |-> c.req.Value.type = "bytes",
                 ttlSeconds |-> ttl.ttl, etag |-> c.req.ETag],
          req |-> c.req]

prepareSetRequest(req) ==
    prepareSetRequest_build(checkRequestOptions(req), parseTTL(req.Metadata))

\* The expiration both branches of setRequest.setValue compute.
expiration(r, t) ==
    IF r.ttlSeconds # Nil THEN expirationTpl(r.ttlSeconds[1], t) ELSE NULL

\* The statement setRequest.setValue executes and what it does.
setRequest_exec(tbl, r, newEtag, t) ==
    IF r.etag = Nil \/ r.etag[1] = ""
    THEN setValueTpl(tbl, r.key, r.value, r.isBinary, newEtag, expiration(r, t), t)
    ELSE setValueWithETagTpl(tbl, r.value, newEtag, r.isBinary, expiration(r, t),
                             r.key, r.etag[1], t)

\* What a method returns from the result res of its statement: (rows == 1, nil).
RowsAffected(res) == [hasUpdate |-> res.rows = 1, err |-> NoErr, tbl |-> res.tbl]

\* setRequest.setValue: (rows == 1, err) and the table inside the transaction.
\* execFails: tx.Exec returns an error.
setRequest_setValue(tbl, r, newEtag, t, execFails) ==
    IF execFails THEN [hasUpdate |-> FALSE, err |-> Err("exec"), tbl |-> tbl]
    ELSE RowsAffected(setRequest_exec(tbl, r, newEtag, t))

\* sqliteDBAccess.setValue, from the answer p of prepareSetRequest and the
\* answer s of setRequest.setValue on.  uuids: how many UUIDs were drawn.
setValue_return(p, s, tbl) ==
    IF IsErr(p.err) THEN [err |-> p.err, tbl |-> tbl, uuids |-> 0]
    ELSE IF IsErr(s.err)
    THEN IF p.req.ETag # Nil /\ p.req.ETag[1] # ""
         THEN [err |-> ETagErr, tbl |-> tbl, uuids |-> 1]
         ELSE [err |-> s.err, tbl |-> tbl, uuids |-> 1]
    ELSE IF ~s.hasUpdate
    THEN [err |-> Err("no item was updated"), tbl |-> s.tbl, uuids |-> 1]
    ELSE [err |-> NoErr, tbl |-> s.tbl, uuids |-> 1]

setValue_prepared(p, tbl, newEtag, t, execFails) ==
    setValue_return(p, setRequest_setValue(tbl, p.r, newEtag, t, execFails), tbl)

\* sqliteDBAccess.setValue
setValue(tbl, req, newEtag, t, execFails) ==
    setValue_prepared(prepareSetRequest(req), tbl, newEtag, t, execFails)

\* prepareDeleteRequest
NoDeleteRequest == [key |-> "", etag |-> Nil]
prepareDeleteRequest(req) ==
    IF IsErr(CheckRequestOptions(req.Concurrency))
    THEN [err |-> CheckRequestOptions(req.Concurrency), r |-> NoDeleteRequest]
    ELSE IF req.Key = ""
    THEN [err |-> Err("missing key in delete operation"), r |-> NoDeleteRequest]
    ELSE IF req.Concurrency = FirstWrite /\ (req.ETag = Nil \/ req.ETag[1] = "")
    THEN [err |-> Err("when FirstWrite is to be enforced, a value must be provided for the ETag"),
          r |-> NoDeleteRequest]
    ELSE [err |-> NoErr, r |-> [key |-> req.Key, etag |-> req.ETag]]

\* The statement deleteRequest.deleteValue executes and what it does.
deleteRequest_exec(tbl, r) ==
    IF r.etag = Nil \/ r.etag[1] = ""
    THEN delValueTpl(tbl, r.key)
    ELSE delValueWithETagTpl(tbl, r.key, r.etag[1])

\* deleteRequest.deleteValue
deleteRequest_deleteValue(tbl, r, execFails) ==
    IF execFails THEN [hasUpdate |-> FALSE, err |-> Err("exec"), tbl |-> tbl]
    ELSE RowsAffected(deleteRequest_exec(tbl, r))

\* A variant of sqliteDBAccess.deleteValue that takes zero rows for success.
deleteValue_return_silent(p, d, req, tbl) ==
    IF IsErr(p.err) THEN [err |-> p.err, tbl |-> tbl, uuids |-> 0]
    ELSE IF IsErr(d.err) THEN [err |-> d.err, tbl |-> tbl, uuids |-> 0]
    ELSE [err |-> NoErr, tbl |-> d.tbl, uuids |-> 0]

\* sqliteDBAccess.deleteValue, from the answer p of prepareDeleteRequest and
\* the answer d of deleteRequest.deleteValue on.
deleteValue_return(p, d, req, tbl) ==
    IF IsErr(p.err) THEN [err |-> p.err, tbl |-> tbl, uuids |-> 0]
    ELSE IF IsErr(d.err) THEN [err |-> d.err, tbl |-> tbl, uuids |-> 0]
    ELSE IF ~d.hasUpdate /\ req.ETag # Nil /\ req.ETag[1] # ""
    THEN [err |-> ETagErr, tbl |-> d.tbl, uuids |-> 0]
    ELSE [err |-> NoErr, tbl |-> d.tbl, uuids |-> 0]

deleteValue_prepared(p, req, tbl, execFails) ==
    deleteValue_return(p, deleteRequest_deleteValue(tbl, p.r, execFails), req, tbl)

\* sqliteDBAccess.deleteValue
deleteValue(tbl, req, execFails) ==
    deleteValue_prepared(prepareDeleteRequest(req), req, tbl, execFails)

--------------------------------------------------------------------------
\* The public operations.  Each runs under the engine's lock, so its
\* transaction sees the committed table and nothing runs beside it.  A fault
\* is where the database fails: at BeginTx, at the tx.Exec of the op-th
\* operation, or at Commit.
NoFault == [at |-> "none", op |-> 0]
Faults(n) == {NoFault, [at |-> "begin", op |-> 0], [at |-> "commit", op |-> 0]}
                \cup {[at |-> "exec", op |-> i] : i \in 1..n}
ExecFails(fault, i) == fault.at = "exec" /\ fault.op = i

\* Get of a binary row, from the answer u of json.Unmarshal on, and from
\* the answer d of base64.StdEncoding.DecodeString on.
Get_decoded(row, d) ==
    IF ~d.ok THEN [err |-> Err("illegal base64 data"), Data |-> Nil, ETag |-> Nil]
    ELSE [err |-> NoErr, Data |-> Ptr(d.val), ETag |-> Ptr(row.etag)]
Get_binary(row, u) ==
    IF ~u.ok THEN [err |-> Err("json: cannot unmarshal"), Data |-> Nil, ETag |-> Nil]
    ELSE Get_decoded(row, DecodeString(u.val))

\* A variant of Get that takes sql.ErrNoRows for an error like any other.
Get_scan_noRowsIsError(req, found) ==
    IF req.Key = ""
    THEN [err |-> Err("missing key in get operation"), Data |-> Nil, ETag |-> Nil]
    ELSE IF found = <<>>
    THEN [err |-> Err("sql: no rows in result set"), Data |-> Nil, ETag |-> Nil]
    ELSE IF found[1].is_binary
    THEN Get_binary(found[1], Unmarshal(found[1].value))
    ELSE [err |-> NoErr, Data |-> Ptr(found[1].value), ETag |-> Ptr(found[1].etag)]

\* Get, from the rows its query finds.
Get_scan(req, found) ==
    IF req.Key = ""
    THEN [err |-> Err("missing key in get operation"), Data |-> Nil, ETag |-> Nil]
    ELSE IF found = <<>> THEN [err |-> NoErr, Data |-> Nil, ETag |-> Nil]
    ELSE IF found[1].is_binary
    THEN Get_binary(found[1], Unmarshal(found[1].value))
    ELSE [err |-> NoErr, Data |-> Ptr(found[1].value), ETag |-> Ptr(found[1].etag)]

\* Get: the response and the error.
Get(tbl, req, t) == Get_scan(req, getValueTpl(tbl, req.Key, t))

\* Get when the database may fail: the key is checked first, then
\* QueryRowContext(...).Scan returns an error that is not sql.ErrNoRows.
Get_query(tbl, req, t, fault) ==
    IF req.Key # "" /\ fault.at # "none"
    THEN [err |-> Err("query"), Data |-> Nil, ETag |-> Nil]
    ELSE Get(tbl, req, t)

\* Variants of the transaction: one without the deferred Rollback (what the
\* body wrote stays when the body fails), one whose failed Commit leaves the
\* writes in place.
Transaction_noRollback(tbl, fault, r) ==
    IF fault.at = "begin" THEN [err |-> Err("begin"), tbl |-> tbl, uuids |-> 0]
    ELSE IF IsErr(r.err) THEN [err |-> r.err, tbl |-> r.tbl, uuids |-> r.uuids]
    ELSE IF fault.at = "commit" THEN [err |-> Err("commit"), tbl |-> tbl, uuids |-> r.uuids]
    ELSE [err |-> NoErr, tbl |-> r.tbl, uuids |-> r.uuids]

Transaction_commitKeeps(tbl, fault, r) ==
    IF fault.at = "begin" THEN [err |-> Err("begin"), tbl |-> tbl, uuids |-> 0]
    ELSE IF IsErr(r.err) THEN [err |-> r.err, tbl |-> tbl, uuids |-> r.uuids]
    ELSE IF fault.at = "commit" THEN [err |-> Err("commit"), tbl |-> r.tbl, uuids |-> r.uuids]
    ELSE [err |-> NoErr, tbl |-> r.tbl, uuids |-> r.uuids]

\* The transaction every write opens: BeginTx, the deferred Rollback, the
\* body with its outcome r, Commit.  It gives the error returned, the
\* committed table and the UUIDs drawn.
Transaction(tbl, fault, r) ==
    IF fault.at = "begin" THEN [err |-> Err("begin"), tbl |-> tbl, uuids |-> 0]
    ELSE IF IsErr(r.err) THEN [err |-> r.err, tbl |-> tbl, uuids |-> r.uuids]
    ELSE IF fault.at = "commit" THEN [err |-> Err("commit"), tbl |-> tbl, uuids |-> r.uuids]
    ELSE [err |-> NoErr, tbl |-> r.tbl, uuids |-> r.uuids]

\* Set; n is the index of the next UUID.
Set(tbl, req, n, t, fault) ==
    Transaction(tbl, fault, setValue(tbl, req, UUIDString(n), t, ExecFails(fault, 1)))

\* Delete
Delete(tbl, req, fault) ==
    Transaction(tbl, fault, deleteValue(tbl, req, ExecFails(fault, 1)))

\* One operation of the loop of ExecuteMulti: the error, the table inside
\* the transaction and the UUIDs drawn.
multiStep(tbl, op, n, t, execFails) ==
    IF op.Operation = Upsert
    THEN IF op.Type = "SetRequest"
         THEN setValue(tbl, op.Request, UUIDString(n), t, execFails)
         ELSE [err |-> Err("expecting set request"), tbl |-> tbl, uuids |-> 0]
    ELSE IF op.Operation = DeleteOp
    THEN IF op.Type = "DeleteRequest"
         THEN deleteValue(tbl, op.Request, execFails)
         ELSE [err |-> Err("expecting delete request"), tbl |-> tbl, uuids |-> 0]
    ELSE [err |-> NoErr, tbl |-> tbl, uuids |-> 0]

\* The outcome acc of the operations before, followed by the outcome r of
\* the next one.
Then(acc, r) == [r EXCEPT !.uuids = @ + acc.uuids]

\* The loop of ExecuteMulti from the i-th operation on, with acc the
\* outcome of the operations before it: it returns at the first error.
RECURSIVE multiLoop(_, _, _, _, _, _)
multiLoop(acc, reqs, i, n, t, fault) ==
    IF i > Len(reqs) \/ IsErr(acc.err) THEN acc
    ELSE multiLoop(Then(acc, multiStep(acc.tbl, reqs[i], n + acc.uuids, t,
                                       ExecFails(fault, i))),
                   reqs, i + 1, n, t, fault)

\* A variant of ExecuteMulti whose loop runs from the last operation to the
\* first.
ExecuteMulti_backwards(tbl, reqs, n, t, fault) ==
    Transaction(tbl, fault,
                multiLoop([err |-> NoErr, tbl |-> tbl, uuids |-> 0],
                          [i \in 1..Len(reqs) |-> reqs[Len(reqs) + 1 - i]], 1, n, t, fault))

\* ExecuteMulti
ExecuteMulti(tbl, reqs, n, t, fault) ==
    Transaction(tbl, fault,
                multiLoop([err |-> NoErr, tbl |-> tbl, uuids |-> 0], reqs, 1, n, t, fault))

\* cleanupTimeout: one sweep of the expired rows; its errors are only logged.
cleanupTimeout(tbl, t, fault) ==
    IF fault.at # "none" THEN tbl ELSE cleanupTimeoutStmtTpl(tbl, t).tbl

--------------------------------------------------------------------------
\* The life of the engine: newSqliteDBAccess, Init, Close.  The properties
\* of state.Metadata are a record of pointers, nil for a property that is
\* absent; a table name is the sequence of its bytes, the cleanup interval
\* a sequence of characters (it goes to strconv.ParseInt).

\* A variant of validIdentifier that lets "-" through.
validIdentifier_allowsDash(v) ==
    /\ v # <<>>
    /\ \A i \in 1..Len(v) :
          \/ v[i] >= 48 /\ v[i] <= 57
          \/ v[i] >= 97 /\ v[i] <= 122
          \/ v[i] >= 65 /\ v[i] <= 90
          \/ v[i] = 95
          \/ v[i] = 45

\* validIdentifier: '0'..'9', 'a'..'z', 'A'..'Z', '_'
validIdentifier(v) ==
    /\ v # <<>>
    /\ \A i \in 1..Len(v) :
          \/ v[i] >= 48 /\ v[i] <= 57
          \/ v[i] >= 97 /\ v[i] <= 122
          \/ v[i] >= 65 /\ v[i] <= 90
          \/ v[i] = 95

\* parseCleanupInterval: d is nil when the cleanup is disabled.
parseCleanupInterval_parsed(p) ==
    IF ~p.ok THEN [err |-> Err("illegal cleanupIntervalInSec value"), d |-> Nil]
    ELSE IF p.val > 0 THEN [err |-> NoErr, d |-> Ptr(p.val)]
    ELSE [err |-> NoErr, d |-> Nil]
\* time.Duration(cleanupIntervalInSec) * time.Second is a product of int64
\* in nanoseconds: it wraps from 9223372037 seconds on, the first number
\* with 10^9 times it above 2^63 - 1, and up to 18446744073 seconds (every
\* number of ten digits among them) it wraps once, to a Duration below
\* zero.  A number of ten digits is told from its digits; of its Duration
\* the sign is kept: Wrapped, below zero, or Unwrapped, above.
Wrapped == 0 - 1
Unwrapped == 2147483647
WrapsFrom == <<"9", "2", "2", "3", "3", "7", "2", "0", "3", "7">>
RECURSIVE Significant(_)
Significant(body) ==
    IF body # <<>> /\ body[1] = "0" THEN Significant(Tail(body)) ELSE body
DigitsLess(x, y) ==
    \E i \in 1..Len(x) : /\ Digit[x[i]] < Digit[y[i]]
                         /\ \A j \in 1..(i - 1) : x[j] = y[j]
TenDigits(s) ==
    /\ \A i \in 1..Len(s) : s[i] \in DOMAIN Digit
    /\ Len(Significant(s)) = 10
parseCleanupInterval_wide(s) ==
    [err |-> NoErr,
     d |-> IF DigitsLess(Significant(s), WrapsFrom) THEN Ptr(Unwrapped) ELSE Ptr(Wrapped)]
parseCleanupInterval(metadata) ==
    IF metadata.cleanupIntervalInSeconds # Nil /\ metadata.cleanupIntervalInSeconds[1] # <<>>
    THEN IF TenDigits(metadata.cleanupIntervalInSeconds[1])
         THEN parseCleanupInterval_wide(metadata.cleanupIntervalInSeconds[1])
         ELSE parseCleanupInterval_parsed(ParseInt(metadata.cleanupIntervalInSeconds[1]))
    ELSE [err |-> NoErr, d |-> Ptr(defaultCleanupInternalInSec)]

\* newSqliteDBAccess: the zero values of the fields.
NoProperties == [tableName |-> Nil, cleanupIntervalInSeconds |-> Nil, connectionString |-> Nil]
newSqliteDBAccess ==
    [metadata |-> NoProperties, connectionString |-> "", tableName |-> <<>>,
     db |-> Nil, cleanupInterval |-> Nil, ctx |-> "nil"]
NoDatabase == [handles |-> <<>>, tables |-> {}, issued |-> 0]

\* n more SQL statements went to the database.
Issued(db, n) == [db EXCEPT !.issued = @ + n]

\* ensureStateTable: the query of tableExists, then BeginTx, CREATE TABLE,
\* CREATE INDEX and Commit, with the deferred Rollback.
ensureStateTable(db, stateTableName, fault) ==
    IF fault.at = "query" THEN [err |-> Err("query"), db |-> Issued(db, 1)]
    ELSE IF stateTableName \in db.tables THEN [err |-> NoErr, db |-> Issued(db, 1)]
    ELSE IF fault.at = "begin" THEN [err |-> Err("begin"), db |-> Issued(db, 1)]
    ELSE IF ExecFails(fault, 1) THEN [err |-> Err("exec"), db |-> Issued(db, 2)]
    ELSE IF ExecFails(fault, 2) THEN [err |-> Err("exec"), db |-> Issued(db, 3)]
    ELSE IF fault.at = "commit" THEN [err |-> Err("commit"), db |-> Issued(db, 3)]
    ELSE [err |-> NoErr,
          db |-> [Issued(db, 3) EXCEPT !.tables = @ \cup {stateTableName}]]

\* Init from sql.Open on; e is the engine with its configuration assigned.
\* scheduleCleanupExpiredData starts the goroutine of the cleanup when
\* a.cleanupInterval is not nil; time.NewTicker(d) panics when d <= 0.
Init_scheduled(e, n, t) ==
    IF IsErr(t.err) \/ e.cleanupInterval = Nil
    THEN [err |-> t.err, a |-> e, sqlite |-> t.db, reclaimers |-> n]
    ELSE IF e.cleanupInterval[1] <= 0
    THEN [err |-> Panic("non-positive interval for NewTicker"), a |-> e, sqlite |-> t.db,
          reclaimers |-> n]
    ELSE [err |-> NoErr, a |-> e, sqlite |-> t.db, reclaimers |-> n + 1]
Init_opened(e, db, n, fault) ==
    IF fault.at = "ping" THEN [err |-> Err("ping"), a |-> e, sqlite |-> db, reclaimers |-> n]
    ELSE Init_scheduled(e, n, ensureStateTable(db, e.tableName, fault))
Init_open(e, db, n, fault) ==
    IF fault.at = "open" THEN [err |-> Err("open"), a |-> e, sqlite |-> db, reclaimers |-> n]
    ELSE Init_opened([e EXCEPT !.db = Ptr(Len(db.handles) + 1), !.ctx = "live"],
                     [db EXCEPT !.handles = Append(@, "open")], n, fault)

\* Init up to the connection string.
Init_connectionString(e, db, n, metadata, fault) ==
    IF metadata.connectionString # Nil /\ metadata.connectionString[1] # ""
    THEN Init_open([e EXCEPT !.connectionString = metadata.connectionString[1]],
                   db, n, fault)
    ELSE [err |-> Err("missing connection string"), a |-> e, sqlite |-> db,
          reclaimers |-> n]
Init_cleanupInterval(e, db, n, metadata, fault, c) ==
    IF IsErr(c.err) THEN [err |-> c.err, a |-> e, sqlite |-> db, reclaimers |-> n]
    ELSE Init_connectionString([e EXCEPT !.cleanupInterval = c.d], db, n, metadata, fault)
Init_tableName(e, db, n, metadata, fault) ==
    IF metadata.tableName = Nil \/ metadata.tableName[1] = <<>>
    THEN Init_cleanupInterval([e EXCEPT !.tableName = defaultTableName], db, n,
                              metadata, fault, parseCleanupInterval(metadata))
    ELSE IF ~validIdentifier(metadata.tableName[1])
    THEN [err |-> Err("invalid identifier"), a |-> e, sqlite |-> db, reclaimers |-> n]
    ELSE Init_cleanupInterval([e EXCEPT !.tableName = metadata.tableName[1]], db, n,
                              metadata, fault, parseCleanupInterval(metadata))

\* sqliteDBAccess.Init: the error, the engine, the database and the number
\* of cleanup goroutines after the call.
Engine_Init(e, db, n, metadata, fault) ==
    Init_tableName([e EXCEPT !.metadata = metadata], db, n, metadata, fault)

\* sqliteDBAccess.Close: a.cancel() and a.db.Close(); it returns nil.
Close_cancel(e) == IF e.ctx # "nil" THEN [e EXCEPT !.ctx = "cancelled"] ELSE e
Close_db(e, db) == IF e.db # Nil THEN [db EXCEPT !.handles[e.db[1]] = "closed"] ELSE db

--------------------------------------------------------------------------
\* The requests callers make.
NoMetadata == [x \in {} |-> <<>>]
TTL(chars) == [x \in {metadataTTLKey} |-> chars]

SetRequest(key, value, etag, concurrency, metadata) ==
    [Key |-> key, Value |-> value, ETag |-> etag, Concurrency |-> concurrency,
     Metadata |-> metadata]
DeleteRequest(key, etag, concurrency) ==
    [Key |-> key, ETag |-> etag, Concurrency |-> concurrency]

\* The ETags a caller can hold: none, the empty string, every UUID stored
\* so far, and a string that is no UUID of the store.
ETagChoices ==
    {Nil, Ptr(""), Ptr("other")} \cup {Ptr(UUIDString(i)) : i \in 1..(nextUUID - 1)}

\* The ETag of the row of key k, if it has one, as a caller read it.
CurrentETag(k) == IF k \in DOMAIN table THEN {Ptr(table[k].etag)} ELSE {}

TTLChoices == {TTL(<<>>), TTL(<<"-", "1">>), TTL(<<"0">>), TTL(<<"1">>)}

\* The two ways a well-formed Set of a key of ks reaches the database:
\* without ETag, and under FirstWrite with the ETag the row has.
PlainSetRequests(ks, m) ==
    {SetRequest(k, Str(<<121>>), Nil, "", m) : k \in ks}
    \cup UNION {{SetRequest(k, Str(<<121>>), e, FirstWrite, m) : e \in CurrentETag(k)} : k \in ks}

SetRequests ==
    \* every key, value, ETag and policy, without TTL
    {SetRequest(k, Str(<<120>>), e, c, NoMetadata) : k \in Keys,
         e \in ETagChoices, c \in {"", FirstWrite, LastWrite}}
    \* both ways, with another value
    \cup PlainSetRequests(Keys, NoMetadata)
    \* every TTL, on both ways, for one key
    \cup UNION {PlainSetRequests({"a"}, m) : m \in TTLChoices}
    \* a nil value
    \cup {SetRequest("a", NilValue, Nil, "", NoMetadata)}
    \* malformed requests
    \cup {SetRequest("", Str(<<120>>), Nil, "", NoMetadata),
          SetRequest("a", Str(<<>>), Nil, "", NoMetadata),
          SetRequest("a", Str(<<120>>), Nil, "", TTL(<<"-", "2">>)),
          SetRequest("a", Str(<<120>>), Nil, "", TTL(<<"x">>)),
          SetRequest("a", Str(<<120>>), Nil, "strong", NoMetadata)}

\* A database fault is tried on the well-formed requests of both ways.
SetCalls ==
    {<<req, NoFault>> : req \in SetRequests}
    \cup {<<req, f>> : req \in PlainSetRequests({"a"}, NoMetadata),
                       f \in Faults(1) \ {NoFault}}

DeleteRequests ==
    {DeleteRequest(k, e, "") : k \in Keys, e \in ETagChoices}
    \cup {DeleteRequest("a", e, FirstWrite) : e \in ETagChoices}
    \cup {DeleteRequest("a", e, LastWrite) : e \in {Nil, Ptr("other")} \cup CurrentETag("a")}
    \cup {DeleteRequest("", Nil, ""), DeleteRequest("a", Nil, "strong")}

DeleteCalls ==
    {<<req, NoFault>> : req \in DeleteRequests}
    \cup {<<DeleteRequest("a", e, ""), f>> : e \in {Nil, Ptr("other")},
             f \in Faults(1) \ {NoFault}}

\* The operations of a batch.  Those that succeed whatever the table is: an
\* upsert of either key and a delete, without ETag.
OpSet(req) == [Operation |-> Upsert, Type |-> "SetRequest", Request |-> req]
OpDelete(req) == [Operation |-> DeleteOp, Type |-> "DeleteRequest", Request |-> req]
PlainOps ==
    {OpSet(SetRequest(k, Str(<<120>>), Nil, "", NoMetadata)) : k \in Keys}
    \cup {OpDelete(DeleteRequest("a", Nil, ""))}

\* An upsert under FirstWrite with the ETag the row had before the batch,
\* and an operation of unknown kind.
OtherOps ==
    {OpSet(SetRequest("a", Str(<<121>>), e, FirstWrite, NoMetadata)) : e \in CurrentETag("a")}
    \cup {[Operation |-> "", Type |-> "", Request |-> Nil]}

\* Those that fail whatever the table is: an upsert and a delete with an
\* ETag no row has, a malformed upsert, a payload of the wrong type.
FailingOps ==
    {OpSet(SetRequest("a", Str(<<121>>), Ptr("other"), FirstWrite, NoMetadata)),
     OpDelete(DeleteRequest("a", Ptr("other"), "")),
     OpSet(SetRequest("", Str(<<121>>), Nil, "", NoMetadata)),
     [Operation |-> Upsert, Type |-> "DeleteRequest",
      Request |-> DeleteRequest("a", Nil, "")]}

SeqsOf(ops, n) == UNION {[1..m -> ops] : m \in 0..n}

\* The batches: up to MaxBatch operations, of which the last may be one of
\* the other or of the failing ones (the loop returns at the first
\* operation that fails).
Batches ==
    SeqsOf(PlainOps, MaxBatch)
    \cup {Append(reqs, op) : reqs \in SeqsOf(PlainOps, MaxBatch - 1),
                             op \in OtherOps \cup FailingOps}

\* A database fault, at Commit or at the tx.Exec of the last operation, is
\* tried on the batches of MaxBatch operations, and one at BeginTx on the
\* empty batch.
BatchCalls ==
    {<<reqs, NoFault>> : reqs \in Batches}
    \cup {<<reqs, f>> : reqs \in [1..MaxBatch -> PlainOps],
                        f \in {[at |-> "commit", op |-> 0], [at |-> "exec", op |-> MaxBatch]}}
    \cup {<<<<>>, [at |-> "begin", op |-> 0]>>}

--------------------------------------------------------------------------
\* The state machine.  table is the committed table, now the database
\* clock (CURRENT_TIMESTAMP), nextUUID the index of the next UUID, and last
\* the call that has just returned: its request, the fault it met, the
\* table before it and what it returned.  Two variables record the history
\* for the properties and are read by no operation: stored, the ETags every
\* key ever had in the committed table, and deadline, for every key the
\* instant (time of the write + TTL) the last successful write of the key
\* asked it to expire at, NULL when it asked for none or the key was
\* deleted.
NoCall == [op |-> "none", req |-> Nil, fault |-> NoFault, err |-> NoErr,
           pre |-> <<>>, resp |-> Nil]

Remember(tbl) ==
    [k \in Keys |-> stored[k] \cup (IF k \in DOMAIN tbl THEN {tbl[k].etag} ELSE {})]

\* The index of the next UUID after a call.  The UUIDs a failed call drew
\* were rolled back with its transaction and returned to nobody, so they
\* are left out of the count: nextUUID - 1 is the number of UUIDs stored.
Drawn(out) == IF IsErr(out.err) THEN nextUUID ELSE nextUUID + out.uuids

\* The TTL a request asks for: <<n>>, or <<>> for none.
RequestedTTL(req) ==
    IF metadataTTLKey \in DOMAIN req.Metadata /\ ParseInt(req.Metadata[metadataTTLKey]).ok
       /\ ParseInt(req.Metadata[metadataTTLKey]).val >= 0
    THEN <<ParseInt(req.Metadata[metadataTTLKey]).val>> ELSE <<>>

\* The keys the operations of a batch name.
BatchKeys(reqs) ==
    {reqs[i].Request.Key : i \in {j \in 1..Len(reqs) : reqs[j].Operation \in {Upsert, DeleteOp}}}

Deadlines(op, req, out) ==
    IF IsErr(out.err) THEN deadline
    ELSE IF op = "Set"
    THEN [deadline EXCEPT ![req.Key] =
             IF RequestedTTL(req) = <<>> THEN NULL ELSE now + RequestedTTL(req)[1]]
    ELSE IF op = "Delete" THEN [deadline EXCEPT ![req.Key] = NULL]
    ELSE [k \in Keys |-> IF k \in BatchKeys(req) THEN NULL ELSE deadline[k]]

\* The goroutines of the second specification: two callers and the
\* goroutine of scheduleCleanupExpiredData.  Each is at a point of the
\* method it runs: idle outside any, and inside one after the step named.
Callers == {"c1", "c2"}
Reclaimer == "reclaimer"
Procs == Callers \cup {Reclaimer}
NoOutcome == [err |-> NoErr, tbl |-> <<>>, uuids |-> 0]
Idle == [pc |-> "idle", op |-> "", req |-> Nil, tx |-> <<>>, open |-> FALSE, i |-> 0,
         r |-> NoOutcome, err |-> NoErr, replaced |-> Nil]

\* The metadata of Init: every table name with the other properties in
\* order, every cleanup interval, every connection string.
Properties(name, interval, conn) ==
    [tableName |-> name, cleanupIntervalInSeconds |-> interval, connectionString |-> conn]
TableNameChoices ==
    {Nil, Ptr(<<>>), Ptr(defaultTableName),
     Ptr(<<116, 95, 49>>),                       \* t_1
     Ptr(<<65, 90, 97, 122, 48, 57, 95>>),       \* AZaz09_
     Ptr(<<97, 45, 98>>), Ptr(<<97, 32, 98>>),   \* a-b, a b
     Ptr(<<97, 59>>), Ptr(<<34>>),               \* a; and a quote
     Ptr(<<47>>), Ptr(<<58>>), Ptr(<<64>>),      \* / : @
     Ptr(<<91>>), Ptr(<<96>>), Ptr(<<123>>),     \* [ ` {
     Ptr(<<195, 169>>)}                          \* e with acute accent, UTF-8
CleanupIntervalChoices ==
    {Nil, Ptr(<<>>), Ptr(<<"0">>), Ptr(<<"-", "1">>), Ptr(<<"5">>), Ptr(<<"x">>)}
ConnectionStringChoices == {Nil, Ptr(""), Ptr("data.db")}
DefaultProperties == Properties(Nil, Nil, Ptr("data.db"))
InitFaults ==
    Faults(2) \cup {[at |-> "open", op |-> 0], [at |-> "ping", op |-> 0],
                    [at |-> "query", op |-> 0]}
InitCalls ==
    {<<Properties(n, Nil, Ptr("data.db")), NoFault>> : n \in TableNameChoices}
    \cup {<<Properties(Nil, i, Ptr("data.db")), NoFault>> : i \in CleanupIntervalChoices}
    \cup {<<Properties(Nil, Nil, c), NoFault>> : c \in ConnectionStringChoices}
    \cup {<<Properties(Ptr(<<97, 45, 98>>), Ptr(<<"x">>), Nil), NoFault>>}
    \cup {<<Properties(Ptr(<<116, 95, 49>>), i, Ptr("data.db")), f>> :
             i \in {Nil, Ptr(<<"0">>)}, f \in InitFaults}

\* The engine after Init without error, on the default properties.
Opened == Engine_Init(newSqliteDBAccess, NoDatabase, 0, DefaultProperties, NoFault)

\* The state after newSqliteDBAccess and Init: the table is there, empty.
Init ==
    /\ a = Opened.a
    /\ sqlite = Opened.sqlite
    /\ reclaimers = Opened.reclaimers
    /\ table = <<>>
    /\ now = 0
    /\ nextUUID = 1
    /\ stored = [k \in Keys |-> {}]
    /\ deadline = [k \in Keys |-> NULL]
    /\ last = NoCall
    /\ lock = [writer |-> "", readers |-> {}, pending |-> ""]
    /\ proc = [p \in Procs |-> Idle]
    /\ held = [p \in Callers |-> Nil]
    /\ wins = <<>>

\* A write returns out: the table, the UUID count and the record of the call.
Returned(op, call, out) ==
    /\ Drawn(out) <= MaxUUID + 1
    /\ table' = out.tbl
    /\ nextUUID' = Drawn(out)
    /\ stored' = Remember(out.tbl)
    /\ deadline' = Deadlines(op, call[1], out)
    /\ last' = [op |-> op, req |-> call[1], fault |-> call[2], err |-> out.err,
                pre |-> table, resp |-> Nil]
    /\ UNCHANGED <<now, goroutines, engine>>

CallSet ==
    /\ last.op = "none"
    /\ \E call \in SetCalls :
         Returned("Set", call, Set(table, call[1], nextUUID, now, call[2]))

CallDelete ==
    /\ last.op = "none"
    /\ \E call \in DeleteCalls :
         Returned("Delete", call, Delete(table, call[1], call[2]))

CallExecuteMulti ==
    /\ last.op = "none"
    /\ \E call \in BatchCalls :
         Returned("ExecuteMulti", call,
                  ExecuteMulti(table, call[1], nextUUID, now, call[2]))

\* A read returns out.
Read(req, fault, out) ==
    /\ last' = [op |-> "Get", req |-> req, fault |-> fault, err |-> out.err,
                pre |-> table, resp |-> out]
    /\ UNCHANGED <<table, now, nextUUID, stored, deadline, goroutines, engine>>

CallGet ==
    /\ last.op = "none"
    /\ \E k \in Keys \cup {""}, fault \in {NoFault, [at |-> "exec", op |-> 1]} :
         Read([Key |-> k], fault, Get_query(table, [Key |-> k], now, fault))

\* A tick of the cleanup ticker: one sweep.
Sweep ==
    /\ last.op = "none"
    /\ \E fault \in Faults(1) :
         /\ table' = cleanupTimeout(table, now, fault)
         /\ last' = [op |-> "cleanupTimeout", req |-> Nil, fault |-> fault,
                     err |-> NoErr, pre |-> table, resp |-> Nil]
    /\ UNCHANGED <<now, nextUUID, stored, deadline, goroutines, engine>>

\* The caller takes the result.
Return ==
    /\ last.op # "none"
    /\ last' = NoCall
    /\ UNCHANGED <<table, now, nextUUID, stored, deadline, goroutines, engine>>

\* A second passes.
Tick ==
    /\ last.op = "none"
    /\ now < MaxTime
    /\ now' = now + 1
    /\ UNCHANGED <<table, nextUUID, stored, deadline, last, goroutines, engine>>

Next ==
    \/ CallSet
    \/ CallDelete
    \/ CallExecuteMulti
    \/ CallGet
    \/ Sweep
    \/ Return
    \/ Tick

Spec == Init /\ [][Next]_vars

\* SQLiteStore.BulkSet and BulkDelete.  make([]T, len(req)) gives a slice of
\* len(req) zero values, and append puts the operations after them.  The
\* zero value of TransactionalStateOperation has the empty OperationType
\* and a nil Request.
ZeroOperation_upsert == [Operation |-> Upsert, Type |-> "", Request |-> Nil]
ZeroOperation == [Operation |-> "", Type |-> "", Request |-> Nil]
make(n) == [i \in 1..n |-> ZeroOperation]
BulkSet_ops(req) == make(Len(req)) \o [i \in 1..Len(req) |-> OpSet(req[i])]
BulkDelete_ops(req) == make(Len(req)) \o [i \in 1..Len(req) |-> OpDelete(req[i])]
BulkSet(tbl, req, n, t, fault) == ExecuteMulti(tbl, BulkSet_ops(req), n, t, fault)
BulkDelete(tbl, req, n, t, fault) == ExecuteMulti(tbl, BulkDelete_ops(req), n, t, fault)

\* The requests of the bulk calls: up to MaxBatch of them, well-formed,
\* with an ETag no row has, with the ETag of the row, without key.
BulkSetChoices ==
    {SetRequest(k, Str(<<120>>), Nil, "", NoMetadata) : k \in Keys}
    \cup {SetRequest("a", Str(<<121>>), e, FirstWrite, NoMetadata) :
             e \in {Ptr("other")} \cup CurrentETag("a")}
    \cup {SetRequest("", Str(<<120>>), Nil, "", NoMetadata)}
BulkDeleteChoices ==
    {DeleteRequest(k, Nil, "") : k \in Keys}
    \cup {DeleteRequest("a", e, "") : e \in {Ptr("other")} \cup CurrentETag("a")}
    \cup {DeleteRequest("", Nil, "")}

\* A database fault at BeginTx, at Commit, or at the tx.Exec of the last
\* operation of the slice.
BulkFaults(req) ==
    {NoFault, [at |-> "begin", op |-> 0], [at |-> "commit", op |-> 0]}
    \cup (IF req = <<>> THEN {} ELSE {[at |-> "exec", op |-> 2 * Len(req)]})

\* A bulk call returns out; ops is the slice it built.
Bulk_Returned(op, req, ops, fault, out) ==
    /\ Drawn(out) <= MaxUUID + 1
    /\ table' = out.tbl
    /\ nextUUID' = Drawn(out)
    /\ stored' = Remember(out.tbl)
    /\ deadline' = Deadlines("ExecuteMulti", ops, out)
    /\ last' = [op |-> op, req |-> req, fault |-> fault, err |-> out.err,
                pre |-> table, resp |-> Nil]
    /\ UNCHANGED <<now, goroutines, engine>>

CallBulkSet ==
    /\ last.op = "none"
    /\ \E req \in SeqsOf(BulkSetChoices, MaxBatch) : \E fault \in BulkFaults(req) :
         Bulk_Returned("BulkSet", req, BulkSet_ops(req), fault,
                       BulkSet(table, req, nextUUID, now, fault))

CallBulkDelete ==
    /\ last.op = "none"
    /\ \E req \in SeqsOf(BulkDeleteChoices, MaxBatch) : \E fault \in BulkFaults(req) :
         Bulk_Returned("BulkDelete", req, BulkDelete_ops(req), fault,
                       BulkDelete(table, req, nextUUID, now, fault))

NextBulk ==
    \/ CallBulkSet
    \/ CallBulkDelete
    \/ Return
    \/ Tick

SpecBulk == Init /\ [][NextBulk]_vars

\* The specification of the life of the engine: from newSqliteDBAccess on,
\* Init and Close in any order and number.
InitNew ==
    /\ a = newSqliteDBAccess
    /\ sqlite = NoDatabase
    /\ reclaimers = 0
    /\ table = <<>>
    /\ now = 0
    /\ nextUUID = 1
    /\ stored = [k \in Keys |-> {}]
    /\ deadline = [k \in Keys |-> NULL]
    /\ last = NoCall
    /\ lock = [writer |-> "", readers |-> {}, pending |-> ""]
    /\ proc = [p \in Procs |-> Idle]
    /\ held = [p \in Callers |-> Nil]
    /\ wins = <<>>

Init_Returned(call, out) ==
    /\ Len(out.sqlite.handles) <= MaxOpen
    /\ a' = out.a
    /\ sqlite' = out.sqlite
    /\ reclaimers' = out.reclaimers
    /\ last' = [op |-> "Init", req |-> call[1], fault |-> call[2], err |-> out.err,
                pre |-> [a |-> a, sqlite |-> sqlite, reclaimers |-> reclaimers],
                resp |-> Nil]
    /\ UNCHANGED <<table, now, nextUUID, stored, deadline, goroutines>>

CallInit ==
    /\ last.op = "none"
    /\ \E call \in InitCalls :
         Init_Returned(call, Engine_Init(a, sqlite, reclaimers, call[1], call[2]))

CallClose ==
    /\ last.op = "none"
    /\ a' = Close_cancel(a)
    /\ sqlite' = Close_db(a, sqlite)
    /\ last' = [op |-> "Close", req |-> Nil, fault |-> NoFault, err |-> NoErr,
                pre |-> [a |-> a, sqlite |-> sqlite, reclaimers |-> reclaimers],
                resp |-> Nil]
    /\ UNCHANGED <<table, now, nextUUID, stored, deadline, goroutines, reclaimers>>

NextInit ==
    \/ CallInit
    \/ CallClose
    \/ Return

SpecInit == InitNew /\ [][NextInit]_vars

\* The specification of the values: Set with values of either kind, text
\* and bytes, and Get.
ValueChoices ==
    {Str(<<120>>), Str(<<120, 121>>), Str(<<Quote>>), Str(<<60, Backslash>>),
     Bytes(<<>>), Bytes(<<77>>), Bytes(<<77, 97>>), Bytes(<<77, 97, 110>>),
     Bytes(<<255, 254, 253, 0>>), Bytes(<<34, 120, 34>>)}
ValueSetRequests ==
    {SetRequest(k, v, Nil, c, NoMetadata) :
        k \in Keys, v \in ValueChoices, c \in {"", LastWrite}}

CallSetValue ==
    /\ last.op = "none"
    /\ \E req \in ValueSetRequests :
         Returned("Set", <<req, NoFault>>, Set(table, req, nextUUID, now, NoFault))

NextValues ==
    \/ CallSetValue
    \/ CallGet
    \/ Return

SpecValues == Init /\ [][NextValues]_vars

--------------------------------------------------------------------------
\* The second specification: the callers and the cleanup run side by side,
\* one statement of a method at a time.  lock is a.lock (sync.RWMutex),
\* proc the point every goroutine is at, with the transaction it has open,
\* held the ETag a caller read with its last Get, and wins the key and the
\* ETag of every Set under FirstWrite that succeeded, in order (wins is
\* read by no method).

\* The Sets a caller makes: of key "a", without ETag, with and without TTL,
\* and under FirstWrite with the ETag it read.
CallerSetRequests(p) ==
    {SetRequest("a", Str(<<120>>), Nil, "", m) : m \in {NoMetadata, TTL(<<"1">>)}}
    \cup {SetRequest("a", Str(<<121>>), held[q], FirstWrite, NoMetadata) :
             q \in {c \in {p} : held[c] # Nil}}

\* a.lock.Lock() and a.lock.RLock() return.
CanLock == lock.writer = "" /\ lock.readers = {}
CanRLock == lock.writer = ""

At(p, pc) == proc[p].pc = pc
Goto(p, pc) == proc' = [proc EXCEPT ![p].pc = pc]

\* Set: a.lock.Lock()
Set_Lock(p) ==
    /\ At(p, "idle")
    /\ CanLock
    /\ \E req \in CallerSetRequests(p) :
         /\ Drawn(Set(table, req, nextUUID, now, NoFault)) <= MaxWrites + 1
         /\ proc' = [proc EXCEPT ![p] = [Idle EXCEPT !.pc = "locked", !.req = req]]
    /\ lock' = [lock EXCEPT !.writer = p]
    /\ UNCHANGED <<table, now, nextUUID, stored, deadline, last, held, wins, engine>>

\* Set: a.db.BeginTx
Set_BeginTx(p) ==
    /\ At(p, "locked")
    /\ proc' = [proc EXCEPT ![p].pc = "begun", ![p].tx = table]
    /\ UNCHANGED <<table, now, nextUUID, stored, deadline, last, lock, held, wins, engine>>

\* Set: a.setValue(tx, req)
Set_setValue(p) ==
    /\ At(p, "begun")
    /\ proc' = [proc EXCEPT ![p].pc = "executed",
                            ![p].r = setValue(proc[p].tx, proc[p].req,
                                              UUIDString(nextUUID), now, FALSE)]
    /\ UNCHANGED <<table, now, nextUUID, stored, deadline, last, lock, held, wins, engine>>

\* The key and the ETag of the Set of p, when it is one under FirstWrite
\* that returns out without error.
Won(p, out) ==
    IF ~IsErr(out.err) /\ proc[p].req.Concurrency = FirstWrite
    THEN <<<<proc[p].req.Key, proc[p].req.ETag[1]>>>> ELSE <<>>

\* The ETag the row of key has in tbl.
ETagOf(tbl, key) == IF key \in DOMAIN tbl THEN Ptr(tbl[key].etag) ELSE Nil

\* Set returns out: tx.Commit() or, after an error, the deferred Rollback.
Set_Returns(p, out) ==
    /\ table' = out.tbl
    /\ nextUUID' = Drawn(out)
    /\ stored' = Remember(out.tbl)
    /\ deadline' = Deadlines("Set", proc[p].req, out)
    /\ wins' = wins \o Won(p, out)
    /\ proc' = [proc EXCEPT ![p].pc = "committed", ![p].err = out.err,
                            ![p].replaced = ETagOf(table, proc[p].req.Key)]

Set_Commit(p) ==
    /\ At(p, "executed")
    /\ \E fault \in {NoFault, [at |-> "commit", op |-> 0]} :
         Set_Returns(p, Transaction(table, fault, proc[p].r))
    /\ UNCHANGED <<now, last, lock, held, engine>>

\* Set: the deferred a.lock.Unlock()
Set_Unlock(p) ==
    /\ At(p, "committed")
    /\ proc' = [proc EXCEPT ![p] = Idle]
    /\ lock' = [lock EXCEPT !.writer = ""]
    /\ UNCHANGED <<table, now, nextUUID, stored, deadline, last, held, wins, engine>>

\* Get: a.lock.RLock()
Get_RLock(p) ==
    /\ At(p, "idle")
    /\ CanRLock
    /\ Goto(p, "rlocked")
    /\ lock' = [lock EXCEPT !.readers = @ \cup {p}]
    /\ UNCHANGED <<table, now, nextUUID, stored, deadline, last, held, wins, engine>>

\* On a closed handle QueryRowContext fails.
Get_fault ==
    IF a.db # Nil /\ sqlite.handles[a.db[1]] = "closed"
    THEN [at |-> "exec", op |-> 1] ELSE NoFault

\* Get: QueryRowContext and Scan; the caller keeps the ETag of the response.
Get_QueryRow(p) ==
    /\ At(p, "rlocked")
    /\ Goto(p, "queried")
    /\ held' = [held EXCEPT ![p] = Get_query(table, [Key |-> "a"], now,
                                             Get_fault).ETag]
    /\ UNCHANGED <<table, now, nextUUID, stored, deadline, last, lock, wins, engine>>

\* Get: the deferred a.lock.RUnlock()
Get_RUnlock(p) ==
    /\ At(p, "queried")
    /\ proc' = [proc EXCEPT ![p] = Idle]
    /\ lock' = [lock EXCEPT !.readers = @ \ {p}]
    /\ UNCHANGED <<table, now, nextUUID, stored, deadline, last, held, wins, engine>>

\* cleanupTimeout, at a tick of the ticker: a.lock.Lock()
cleanupTimeout_Lock ==
    /\ At(Reclaimer, "idle")
    /\ CanLock
    /\ Goto(Reclaimer, "locked")
    /\ lock' = [lock EXCEPT !.writer = Reclaimer]
    /\ UNCHANGED <<table, now, nextUUID, stored, deadline, last, held, wins, engine>>

\* cleanupTimeout: BeginTx, Exec, Commit
cleanupTimeout_Sweep ==
    /\ At(Reclaimer, "locked")
    /\ Goto(Reclaimer, "committed")
    /\ \E fault \in Faults(1) : table' = cleanupTimeout(table, now, fault)
    /\ UNCHANGED <<now, nextUUID, stored, deadline, last, lock, held, wins, engine>>

\* cleanupTimeout: the deferred a.lock.Unlock()
cleanupTimeout_Unlock ==
    /\ At(Reclaimer, "committed")
    /\ Goto(Reclaimer, "idle")
    /\ lock' = [lock EXCEPT !.writer = ""]
    /\ UNCHANGED <<table, now, nextUUID, stored, deadline, last, held, wins, engine>>

NextConcurrent ==
    \/ \E p \in Callers : Set_Lock(p)
    \/ \E p \in Callers : Set_BeginTx(p)
    \/ \E p \in Callers : Set_setValue(p)
    \/ \E p \in Callers : Set_Commit(p)
    \/ \E p \in Callers : Set_Unlock(p)
    \/ \E p \in Callers : Get_RLock(p)
    \/ \E p \in Callers : Get_QueryRow(p)
    \/ \E p \in Callers : Get_RUnlock(p)
    \/ cleanupTimeout_Lock
    \/ cleanupTimeout_Sweep
    \/ cleanupTimeout_Unlock
    \/ Tick

SpecConcurrent == Init /\ [][NextConcurrent]_vars

--------------------------------------------------------------------------
\* The third specification of goroutines: two callers that run Set, Delete,
\* ExecuteMulti and Get, the goroutine of scheduleCleanupExpiredData with
\* its select loop, and Close, which any goroutine may call at any moment.
\* A caller is "waiting" inside Lock or RLock until the lock is granted.  In
\* proc, op is the method, open says that its transaction is open, tx is
\* the table as BeginTx found it, r.tbl the table inside the transaction
\* and i the index of the next operation of a batch.  The records of the
\* first specification (stored, deadline, last) and held, wins are left as
\* they are.

\* The calls of the callers: well-formed ones and malformed ones (no key),
\* alone and at the end of a batch.
EngineSets ==
    {SetRequest("a", Str(<<120>>), Nil, "", TTL(<<"0">>)),
     SetRequest("", Str(<<120>>), Nil, "", NoMetadata)}
EngineDeletes == {DeleteRequest("a", Nil, "")}
EngineBatches ==
    {<<OpDelete(DeleteRequest("a", Nil, "")),
       OpSet(SetRequest("a", Str(<<120>>), Nil, "", TTL(<<"0">>)))>>,
     <<OpSet(SetRequest("a", Str(<<120>>), Nil, "", TTL(<<"0">>))),
       OpSet(SetRequest("", Str(<<120>>), Nil, "", NoMetadata))>>}

\* The upserts of a batch: the UUIDs it may draw.
Upserts(reqs) == Cardinality({j \in 1..Len(reqs) : reqs[j].Operation = Upsert})

\* The handle a.db was closed.
DatabaseClosed == a.db # Nil /\ sqlite.handles[a.db[1]] = "closed"

\* A variant of the context that is never done.
ctx_Done_never == FALSE

\* a.ctx.Done() is closed: the context was cancelled.
ctx_Done == a.ctx = "cancelled"

\* A variant of the method without its deferred tx.Rollback().
Rollback_missing(open) == open

\* The deferred tx.Rollback(): the transaction is open no more.
Rollback(open) == FALSE

\* Set, Delete, ExecuteMulti: the call arrives at a.lock.Lock(); req is the
\* sequence of what the call carries, one request or the operations.
Write_Called(p, op, req, uuids) ==
    /\ nextUUID + uuids <= MaxEngineWrites + 1
    /\ proc' = [proc EXCEPT ![p] = [Idle EXCEPT !.pc = "waiting", !.op = op, !.req = req]]
\* Caller c1 sends every call above; c2 sends the well-formed Set, and Get.
Write_Call(p) ==
    /\ At(p, "idle")
    /\ \/ \E req \in {r \in EngineSets : p = "c1" \/ r.Key # ""} :
             Write_Called(p, "Set", <<req>>, 1)
       \/ /\ p = "c1"
          /\ \E req \in EngineDeletes : Write_Called(p, "Delete", <<req>>, 0)
       \/ /\ p = "c1"
          /\ \E reqs \in EngineBatches :
                Write_Called(p, "ExecuteMulti", reqs, Upserts(reqs))
    /\ UNCHANGED <<table, now, nextUUID, stored, deadline, last, lock, held, wins, engine>>

\* sync.RWMutex as Go has it.  Lock first takes the mutex of the writers
\* and announces itself (pending); from then on RLock blocks, and Lock
\* returns when the readers that hold the lock have left.  Unlock hands
\* the lock to every reader that is blocked in RLock at that moment.
Lock_pending(p) ==
    /\ lock.writer = ""
    /\ lock.pending = ""
    /\ lock' = [lock EXCEPT !.pending = p]
Lock_returns(p) ==
    /\ lock.pending = p
    /\ lock.readers = {}
    /\ lock' = [lock EXCEPT !.writer = p, !.pending = ""]
RLock_returns_besideWriter(p) ==
    /\ lock' = [lock EXCEPT !.readers = @ \cup {p}]
RLock_returns(p) ==
    /\ lock.writer = ""
    /\ lock.pending = ""
    /\ lock' = [lock EXCEPT !.readers = @ \cup {p}]
Blocked == {q \in Callers : proc[q].pc = "rwaiting"}
Unlock_returns(p) ==
    /\ lock' = [lock EXCEPT !.writer = "", !.readers = Blocked]
    /\ proc' = [q \in Procs |-> IF q = p THEN Idle
                                 ELSE IF q \in Blocked THEN [proc[q] EXCEPT !.pc = "rlocked"]
                                 ELSE proc[q]]

\* a.lock.Lock(): the writer announces itself, then Lock returns.
Write_Pending(p) ==
    /\ At(p, "waiting")
    /\ Lock_pending(p)
    /\ UNCHANGED <<table, now, nextUUID, stored, deadline, last, proc, held, wins, engine>>
Write_Lock(p) ==
    /\ At(p, "waiting")
    /\ Lock_returns(p)
    /\ Goto(p, "locked")
    /\ UNCHANGED <<table, now, nextUUID, stored, deadline, last, held, wins, engine>>

\* a.db.BeginTx: it fails on a closed handle, and when the database fails.
Write_BeginTx(p) ==
    /\ At(p, "locked")
    /\ \E fails \in {TRUE} \cup {f \in {FALSE} : ~DatabaseClosed} :
         proc' = [proc EXCEPT ![p].pc = IF fails THEN "returning" ELSE "begun",
                              ![p].tx = table,
                              ![p].open = ~fails,
                              ![p].i = 1,
                              ![p].r = [err |-> NoErr, tbl |-> table, uuids |-> 0],
                              ![p].err = IF fails THEN Err("begin") ELSE NoErr]
    /\ UNCHANGED <<table, now, nextUUID, stored, deadline, last, lock, held, wins, engine>>

\* The body of the method inside the transaction: a.setValue of Set,
\* a.deleteValue of Delete, one turn of the loop of ExecuteMulti.
Write_step(p, execFails) ==
    IF proc[p].op = "Set"
    THEN setValue(proc[p].r.tbl, proc[p].req[1], UUIDString(nextUUID), now, execFails)
    ELSE IF proc[p].op = "Delete"
    THEN deleteValue(proc[p].r.tbl, proc[p].req[1], execFails)
    ELSE IF proc[p].i > Len(proc[p].req) THEN proc[p].r
    ELSE Then(proc[p].r, multiStep(proc[p].r.tbl, proc[p].req[proc[p].i],
                                   nextUUID + proc[p].r.uuids, now, execFails))
Write_last(p, r) ==
    \/ proc[p].op # "ExecuteMulti"
    \/ IsErr(r.err)
    \/ proc[p].i >= Len(proc[p].req)
Write_stepped(p, r) ==
    proc' = [proc EXCEPT ![p].pc = IF Write_last(p, r) THEN "executed" ELSE "begun",
                         ![p].i = @ + 1,
                         ![p].r = r]
Write_Body(p) ==
    /\ At(p, "begun")
    /\ \E execFails \in BOOLEAN : Write_stepped(p, Write_step(p, execFails))
    /\ UNCHANGED <<table, now, nextUUID, stored, deadline, last, lock, held, wins, engine>>

\* tx.Commit(), after a body without error
Write_committed(p, out) ==
    /\ table' = out.tbl
    /\ nextUUID' = Drawn(out)
    /\ proc' = [proc EXCEPT ![p].pc = "returning", ![p].open = FALSE, ![p].err = out.err]
Write_Commit(p) ==
    /\ At(p, "executed")
    /\ ~IsErr(proc[p].r.err)
    /\ \E fault \in {NoFault, [at |-> "commit", op |-> 0]} :
         Write_committed(p, Transaction(table, fault, proc[p].r))
    /\ UNCHANGED <<now, stored, deadline, last, lock, held, wins, engine>>

\* The deferred tx.Rollback(), after a body that returned an error
Write_Rollback(p) ==
    /\ At(p, "executed")
    /\ IsErr(proc[p].r.err)
    /\ proc' = [proc EXCEPT ![p].pc = "returning", ![p].open = Rollback(@),
                            ![p].err = proc[p].r.err]
    /\ UNCHANGED <<table, now, nextUUID, stored, deadline, last, lock, held, wins, engine>>

\* The deferred a.lock.Unlock(); the method returns.
Write_Unlock(p) ==
    /\ At(p, "returning")
    /\ Unlock_returns(p)
    /\ UNCHANGED <<table, now, nextUUID, stored, deadline, last, held, wins, engine>>

\* Get: the call arrives at a.lock.RLock(), and RLock returns.
Read_Call(p) ==
    /\ At(p, "idle")
    /\ proc' = [proc EXCEPT ![p] = [Idle EXCEPT !.pc = "rwaiting", !.op = "Get"]]
    /\ UNCHANGED <<table, now, nextUUID, stored, deadline, last, lock, held, wins, engine>>
Read_RLock(p) ==
    /\ At(p, "rwaiting")
    /\ RLock_returns(p)
    /\ Goto(p, "rlocked")
    /\ UNCHANGED <<table, now, nextUUID, stored, deadline, last, held, wins, engine>>

\* Get: QueryRowContext and Scan, which fail on a closed handle; err is the
\* error Get returns.
Read_QueryRow(p) ==
    /\ At(p, "rlocked")
    /\ proc' = [proc EXCEPT ![p].pc = "queried",
                            ![p].err = Get_query(table, [Key |-> "a"], now, Get_fault).err]
    /\ UNCHANGED <<table, now, nextUUID, stored, deadline, last, lock, held, wins, engine>>

\* The goroutine of scheduleCleanupExpiredData is in its select ("idle").
\* select takes ticker.C: a.cleanupTimeout() arrives at a.lock.Lock().  With
\* a.ctx cancelled as well, select takes either case.
Reclaimer_Tick ==
    /\ reclaimers > 0
    /\ At(Reclaimer, "idle")
    /\ proc' = [proc EXCEPT ![Reclaimer] = [Idle EXCEPT !.pc = "waiting",
                                                         !.op = "cleanupTimeout"]]
    /\ UNCHANGED <<table, now, nextUUID, stored, deadline, last, lock, held, wins, engine>>

\* select takes a.ctx.Done(): the goroutine returns.
Reclaimer_Done ==
    /\ reclaimers > 0
    /\ At(Reclaimer, "idle")
    /\ ctx_Done
    /\ Goto(Reclaimer, "exited")
    /\ UNCHANGED <<table, now, nextUUID, stored, deadline, last, lock, held, wins, engine>>

\* cleanupTimeout: a.lock.Lock()
Sweep_Pending ==
    /\ At(Reclaimer, "waiting")
    /\ Lock_pending(Reclaimer)
    /\ UNCHANGED <<table, now, nextUUID, stored, deadline, last, proc, held, wins, engine>>
Sweep_Lock ==
    /\ At(Reclaimer, "waiting")
    /\ Lock_returns(Reclaimer)
    /\ Goto(Reclaimer, "locked")
    /\ UNCHANGED <<table, now, nextUUID, stored, deadline, last, held, wins, engine>>

\* cleanupTimeout: a.db.BeginTx(ctx), with ctx a child of a.ctx; it fails
\* when a.ctx is cancelled, on a closed handle, and when the database fails.
Sweep_BeginTx ==
    /\ At(Reclaimer, "locked")
    /\ \E fails \in {TRUE} \cup {f \in {FALSE} : ~DatabaseClosed /\ ~ctx_Done} :
         proc' = [proc EXCEPT ![Reclaimer].pc = IF fails THEN "returning" ELSE "begun",
                              ![Reclaimer].tx = table,
                              ![Reclaimer].open = ~fails,
                              ![Reclaimer].r = [err |-> NoErr, tbl |-> table, uuids |-> 0],
                              ![Reclaimer].err = IF fails THEN Err("begin") ELSE NoErr]
    /\ UNCHANGED <<table, now, nextUUID, stored, deadline, last, lock, held, wins, engine>>

\* cleanupTimeout: tx.Exec of the DELETE.  After a.ctx is cancelled the
\* transaction is rolled back by the goroutine that watches its context,
\* at a moment of its own: Exec then fails or still runs.
Sweep_Exec ==
    /\ At(Reclaimer, "begun")
    /\ \E fails \in BOOLEAN :
         proc' = [proc EXCEPT
                    ![Reclaimer].pc = "executed",
                    ![Reclaimer].r =
                        IF fails THEN [@ EXCEPT !.err = Err("exec")]
                        ELSE [@ EXCEPT !.tbl = cleanupTimeoutStmtTpl(@, now).tbl]]
    /\ UNCHANGED <<table, now, nextUUID, stored, deadline, last, lock, held, wins, engine>>

\* cleanupTimeout: tx.Commit(), which returns the error of the context when
\* a.ctx is cancelled, or the return after a failed Exec with the deferred
\* tx.Rollback().
Sweep_Commit ==
    /\ At(Reclaimer, "executed")
    /\ \E fails \in {TRUE} \cup {f \in {FALSE} : ~IsErr(proc[Reclaimer].r.err)
                                                     /\ ~ctx_Done} :
         /\ table' = IF fails THEN table ELSE proc[Reclaimer].r.tbl
         /\ proc' = [proc EXCEPT ![Reclaimer].pc = "returning",
                                 ![Reclaimer].open = IF fails THEN Rollback(@) ELSE FALSE,
                                 ![Reclaimer].err = IF fails THEN Err("commit") ELSE NoErr]
    /\ UNCHANGED <<now, nextUUID, stored, deadline, last, lock, held, wins, engine>>

\* cleanupTimeout: the deferred a.lock.Unlock(); back to the select.
Sweep_Unlock ==
    /\ At(Reclaimer, "returning")
    /\ Unlock_returns(Reclaimer)
    /\ UNCHANGED <<table, now, nextUUID, stored, deadline, last, held, wins, engine>>

\* A second passes.
Engine_Tick ==
    /\ now < MaxEngineTime
    /\ now' = now + 1
    /\ UNCHANGED <<table, nextUUID, stored, deadline, last, goroutines, engine>>

\* Close, from any goroutine: it takes no lock and returns nil.
Engine_Close ==
    /\ a' = Close_cancel(a)
    /\ sqlite' = Close_db(a, sqlite)
    /\ UNCHANGED <<table, now, nextUUID, stored, deadline, last, goroutines, reclaimers>>

NextEngine ==
    \/ \E p \in Callers : Write_Call(p)
    \/ \E p \in Callers : Write_Pending(p)
    \/ \E p \in Callers : Write_Lock(p)
    \/ \E p \in Callers : Write_BeginTx(p)
    \/ \E p \in Callers : Write_Body(p)
    \/ \E p \in Callers : Write_Commit(p)
    \/ \E p \in Callers : Write_Rollback(p)
    \/ \E p \in Callers : Write_Unlock(p)
    \/ \E p \in Callers : Read_Call(p)
    \/ \E p \in Callers : Read_RLock(p)
    \/ \E p \in Callers : Read_QueryRow(p)
    \/ \E p \in Callers : Get_RUnlock(p)
    \/ Reclaimer_Tick
    \/ Reclaimer_Done
    \/ Sweep_Pending
    \/ Sweep_Lock
    \/ Sweep_BeginTx
    \/ Sweep_Exec
    \/ Sweep_Commit
    \/ Sweep_Unlock
    \/ Engine_Close
    \/ Engine_Tick

SpecEngine == Init /\ [][NextEngine]_vars

\* Scheduling.  Every goroutine that is inside a method keeps running (WF
\* of its steps).  The mutex of the writers hands over in arrival order once
\* a goroutine has waited (starvation mode of sync.Mutex), so a writer that
\* can take it again and again does take it (SF).  RLock returns at once
\* unless a writer holds or awaits the lock (WF).  select chooses at random
\* among the cases that are ready, so a case that is ready again and again
\* is chosen (SF of Reclaimer_Done).  Nothing makes a caller call, the
\* ticker tick or anybody close.
EngineFairness ==
    /\ \A p \in Callers :
          /\ WF_vars(Write_Lock(p) \/ Write_BeginTx(p) \/ Write_Body(p) \/ Write_Commit(p)
                        \/ Write_Rollback(p) \/ Write_Unlock(p)
                        \/ Read_RLock(p) \/ Read_QueryRow(p) \/ Get_RUnlock(p))
          /\ SF_vars(Write_Pending(p))
    /\ WF_vars(Sweep_Lock \/ Sweep_BeginTx \/ Sweep_Exec \/ Sweep_Commit \/ Sweep_Unlock)
    /\ SF_vars(Sweep_Pending)
    /\ SF_vars(Reclaimer_Done)

SpecEngineFair == SpecEngine /\ EngineFairness

\* The specification of the schedule of the cleanup: the engine after Init
\* on every cleanup interval, one caller that writes, the goroutine of the
\* cleanup, the clock and Close.  last keeps the call of Init.  After a
\* panic of Init the process is gone, and every goroutine with it.
ScheduleIntervals ==
    {Nil, Ptr(<<>>), Ptr(<<"0">>), Ptr(<<"-", "1">>), Ptr(<<"5">>), Ptr(WrapsFrom)}
Schedule_Goroutine(out) ==
    IF out.err.kind = "panic" THEN [Idle EXCEPT !.pc = "exited"] ELSE Idle
Schedule_Started(metadata, out) ==
    /\ a = out.a
    /\ sqlite = out.sqlite
    /\ reclaimers = out.reclaimers
    /\ last = [op |-> "Init", req |-> metadata, fault |-> NoFault, err |-> out.err,
               pre |-> [a |-> newSqliteDBAccess, sqlite |-> NoDatabase, reclaimers |-> 0],
               resp |-> Nil]
    /\ proc = [p \in Procs |-> Schedule_Goroutine(out)]
InitSchedule ==
    /\ \E i \in ScheduleIntervals :
          Schedule_Started(Properties(Nil, i, Ptr("data.db")),
                           Engine_Init(newSqliteDBAccess, NoDatabase, 0,
                                       Properties(Nil, i, Ptr("data.db")), NoFault))
    /\ table = <<>>
    /\ now = 0
    /\ nextUUID = 1
    /\ stored = [k \in Keys |-> {}]
    /\ deadline = [k \in Keys |-> NULL]
    /\ lock = [writer |-> "", readers |-> {}, pending |-> ""]
    /\ held = [p \in Callers |-> Nil]
    /\ wins = <<>>

NextSchedule ==
    \/ Write_Call("c1")
    \/ Write_Pending("c1")
    \/ Write_Lock("c1")
    \/ Write_BeginTx("c1")
    \/ Write_Body("c1")
    \/ Write_Commit("c1")
    \/ Write_Rollback("c1")
    \/ Write_Unlock("c1")
    \/ Reclaimer_Tick
    \/ Reclaimer_Done
    \/ Sweep_Pending
    \/ Sweep_Lock
    \/ Sweep_BeginTx
    \/ Sweep_Exec
    \/ Sweep_Commit
    \/ Sweep_Unlock
    \/ Engine_Close
    \/ Engine_Tick

SpecSchedule == InitSchedule /\ [][NextSchedule]_vars

\* Scheduling, as in EngineFairness, and the ticker: time.NewTicker(d)
\* sends on ticker.C every d for as long as the process runs, so the
\* goroutine that waits in its select gets a tick (WF of Reclaimer_Tick).
ScheduleFairness ==
    /\ WF_vars(Write_Lock("c1") \/ Write_BeginTx("c1") \/ Write_Body("c1")
                  \/ Write_Commit("c1") \/ Write_Rollback("c1") \/ Write_Unlock("c1"))
    /\ SF_vars(Write_Pending("c1"))
    /\ WF_vars(Sweep_Lock \/ Sweep_BeginTx \/ Sweep_Exec \/ Sweep_Commit \/ Sweep_Unlock)
    /\ SF_vars(Sweep_Pending)
    /\ SF_vars(Reclaimer_Done)
    /\ WF_vars(Reclaimer_Tick)

SpecScheduleFair == SpecSchedule /\ ScheduleFairness

--------------------------------------------------------------------------
\* The properties.  They read the call that has just returned (last), the
\* table before it (last.pre) and the table after it (table).

\* A request the builders accept, said without them.
ValidTTL(req) ==
    \/ metadataTTLKey \notin DOMAIN req.Metadata
    \/ req.Metadata[metadataTTLKey] = <<>>
    \/ /\ ParseInt(req.Metadata[metadataTTLKey]).ok
       /\ ParseInt(req.Metadata[metadataTTLKey]).val >= -1
HasETag(req) == req.ETag # Nil /\ req.ETag[1] # ""
WellFormedSet(req) ==
    /\ req.Key # ""
    /\ req.Value # Str(<<>>)
    /\ req.Concurrency \in {"", FirstWrite, LastWrite}
    /\ req.Concurrency = FirstWrite => HasETag(req)
    /\ ValidTTL(req)
WellFormedDelete(req) ==
    /\ req.Key # ""
    /\ req.Concurrency \in {"", FirstWrite, LastWrite}
    /\ req.Concurrency = FirstWrite => HasETag(req)

\* The row of key in tbl has the ETag etag.
Matches(tbl, key, etag) == key \in DOMAIN tbl /\ tbl[key].etag = etag

\* tbl and pre are the same but for the row of key.
SameButFor(tbl, pre, key) ==
    /\ DOMAIN tbl \ {key} = DOMAIN pre \ {key}
    /\ \A k \in DOMAIN tbl \ {key} : tbl[k] = pre[k]

\* Get answers on every key what it answered before the call.
SameAnswers ==
    \A k \in Keys : Get(table, [Key |-> k], now) = Get(last.pre, [Key |-> k], now)

\* A well-formed Set has returned and the database did not fail.
SetReturned == last.op = "Set" /\ last.fault = NoFault /\ WellFormedSet(last.req)
DeleteReturned == last.op = "Delete" /\ last.fault = NoFault /\ WellFormedDelete(last.req)

--------------------------------------------------------------------------
\* C1.  A Set under FirstWrite whose non-empty ETag is not the ETag stored
\* for the key (the ETag is stale, or the key has no row) fails with an
\* error of the kind ETagMismatch, not with a generic error.
C1_Mismatch ==
    /\ SetReturned
    /\ last.req.Concurrency = FirstWrite
    /\ HasETag(last.req)
    /\ ~Matches(last.pre, last.req.Key, last.req.ETag[1])
C1_FirstWriteMismatchIsETagMismatch ==
    C1_Mismatch => last.err.kind = "ETagMismatch"

\* C2.  A Set under LastWrite, named by the request or in force because the
\* request names no policy, ignores the ETag it carries: it succeeds as an
\* upsert of the row of its key, whether or not the key has a row and
\* whatever the ETag is.
C2_LastWrite ==
    /\ SetReturned
    /\ last.req.Concurrency \in {"", LastWrite}
C2_Upserted ==
    /\ ~IsErr(last.err)
    /\ last.req.Key \in DOMAIN table
    /\ table[last.req.Key].value = Marshal(last.req.Value)
    /\ SameButFor(table, last.pre, last.req.Key)
C2_LastWriteIgnoresETag == C2_LastWrite => C2_Upserted

\* C3.  ExecuteMulti is all or nothing: when an operation of the batch
\* fails, or the database does, ExecuteMulti returns an error, and whenever
\* it returns an error the table is what it was before the batch, so that
\* Get answers on every key what it answered before, the keys that the
\* operations before the failing one wrote or deleted included.
C3_SomeOperationFails ==
    \/ last.fault # NoFault
    \/ \E i \in 1..Len(last.req) : last.req[i] \in FailingOps
C3_ExecuteMultiAllOrNothing ==
    last.op = "ExecuteMulti" =>
        /\ C3_SomeOperationFails => IsErr(last.err)
        /\ IsErr(last.err) => table = last.pre /\ SameAnswers
\* A batch whose first operation writes a key that had no row and whose
\* second operation fails.
C3_Witness ==
    /\ last.op = "ExecuteMulti"
    /\ last.fault = NoFault
    /\ Len(last.req) = 2
    /\ last.req[1] = OpSet(SetRequest("b", Str(<<120>>), Nil, "", NoMetadata))
    /\ "b" \notin DOMAIN last.pre
    /\ last.req[2] \in FailingOps
    /\ IsErr(last.err)

\* C5.  A Set or a Delete that returns an error leaves the store as it was:
\* the table is the table before the call, and Get answers on every key the
\* value and the ETag it answered before.
C5_FailedCallChangesNothing ==
    (last.op \in {"Set", "Delete"} /\ IsErr(last.err)) =>
        table = last.pre /\ SameAnswers
\* A Set of a key without row whose Commit fails, after its statement wrote
\* the row inside the transaction.
C5_Witness ==
    /\ last.op = "Set"
    /\ last.fault.at = "commit"
    /\ last.req.Key \notin DOMAIN last.pre
    /\ IsErr(last.err)

\* C6.  As stated: a Set under FirstWrite that carries the ETag stored for a
\* live key succeeds, and Get on the key then returns the new value, with
\* an ETag that is not the one the Set carried.
C6_CurrentETag ==
    /\ SetReturned
    /\ last.req.Concurrency = FirstWrite
    /\ Matches(last.pre, last.req.Key, last.req.ETag[1])
    /\ Live(last.pre[last.req.Key], now)
C6_GetReturnsNew(got) ==
    /\ ~IsErr(got.err)
    /\ got.Data = Ptr(Marshal(last.req.Value))
    /\ got.ETag # Nil
    /\ got.ETag # last.req.ETag
C6_Outcome ==
    /\ ~IsErr(last.err)
    /\ C6_GetReturnsNew(Get(table, [Key |-> last.req.Key], now))
C7_Recorded == \A k \in DOMAIN table : table[k].etag \in stored[k]
C7_Written(k) == k \in DOMAIN table' /\ (k \notin DOMAIN table \/ table'[k] # table[k])
C7_Step ==
    /\ C7_Recorded
    /\ \A k \in Keys : C7_Written(k) => table'[k].etag \notin stored[k]
    /\ (last'.op = "Set" /\ ~IsErr(last'.err)) => C7_Written(last'.req.Key)
    /\ IsErr(last'.err) => table' = table
C7_ETagNeverReused == [][C7_Step]_vars
\* A Set has replaced a row: its key has had two ETags.
C7_Witness ==
    /\ last.op = "Set"
    /\ ~IsErr(last.err)
    /\ last.req.Key \in DOMAIN last.pre
    /\ Cardinality(stored[last.req.Key]) >= 2

\* C8.  A key that a Set wrote with a TTL is returned by Get while the clock
\* is before the time of the write + the TTL, and every Get after that
\* instant returns an empty result without error, whether or not a sweep
\* has removed the expired row (the database answering the query).
C8_GetOf(k) ==
    last.op = "Get" /\ last.fault = NoFault /\ last.req.Key = k /\ deadline[k] # NULL
C8_Returned == ~IsErr(last.err) /\ last.resp.Data # Nil /\ last.resp.ETag # Nil
C8_Empty == ~IsErr(last.err) /\ last.resp.Data = Nil /\ last.resp.ETag = Nil
C8_ExpirationVisibility ==
    \A k \in Keys :
        C8_GetOf(k) =>
            /\ now < deadline[k] => C8_Returned
            /\ now > deadline[k] => C8_Empty
\* A Get, after the instant, of a key written with a TTL of a second or
\* more whose row is still in the table.
C8_Witness ==
    \E k \in Keys :
        /\ C8_GetOf(k)
        /\ now > deadline[k]
        /\ k \in DOMAIN table
        /\ table[k].update_time < deadline[k]

\* C9.  Every successful Set, on either path, replaces the expiration of
\* the row: with a TTL of n seconds it becomes now + n, and with none
\* (absent, empty or -1) it becomes NULL, whatever it was.
C9_Expiration(req) ==
    IF RequestedTTL(req) = <<>> THEN NULL ELSE now + RequestedTTL(req)[1]
C9_ExpirationReplaced ==
    (last.op = "Set" /\ ~IsErr(last.err)) =>
        /\ last.req.Key \in DOMAIN table
        /\ table[last.req.Key].expiration_time = C9_Expiration(last.req)
\* A Set under FirstWrite without TTL of a key whose row had an expiration.
C9_Witness ==
    /\ last.op = "Set"
    /\ ~IsErr(last.err)
    /\ HasETag(last.req)
    /\ RequestedTTL(last.req) = <<>>
    /\ last.req.Key \in DOMAIN last.pre
    /\ last.pre[last.req.Key].expiration_time # NULL

\* C10.  A Delete without ETag removes the row of its key and succeeds,
\* also when the key has no row; a Delete with an ETag removes the row when
\* key and ETag match, and otherwise fails with ETagMismatch and removes
\* nothing.
C10_Removed ==
    /\ ~IsErr(last.err)
    /\ last.req.Key \notin DOMAIN table
    /\ SameButFor(table, last.pre, last.req.Key)
C10_Refused == last.err.kind = "ETagMismatch" /\ table = last.pre
C10_DeleteOutcome ==
    DeleteReturned =>
        IF ~HasETag(last.req) \/ Matches(last.pre, last.req.Key, last.req.ETag[1])
        THEN C10_Removed ELSE C10_Refused
\* A Delete with an ETag that the row of its key does not have.
C10_Witness ==
    /\ DeleteReturned
    /\ HasETag(last.req)
    /\ last.req.Key \in DOMAIN last.pre
    /\ ~Matches(last.pre, last.req.Key, last.req.ETag[1])

\* C4.  In every interleaving of the callers and the sweeps, of the Sets
\* under FirstWrite of one key that carry the same ETag at most one
\* succeeds, and a Set under FirstWrite that succeeds replaces the row whose
\* ETag it carries: it overwrites no write made since its caller read the
\* ETag.
C4_AtMostOneWins ==
    \A i \in 1..Len(wins) : \A j \in 1..Len(wins) : wins[i] = wins[j] => i = j
C4_WonOverHeld(p) ==
    (At(p, "committed") /\ ~IsErr(proc[p].err) /\ proc[p].req.Concurrency = FirstWrite)
        => proc[p].replaced = proc[p].req.ETag
C4_CompareAndSwapAtomic ==
    /\ C4_AtMostOneWins
    /\ \A p \in Callers : C4_WonOverHeld(p)
\* Two callers read the same ETag; the Set of one has succeeded and the Set
\* of the other, with the same ETag, has returned an error.
C4_Witness ==
    \E p \in Callers :
        /\ At(p, "committed")
        /\ proc[p].req.Concurrency = FirstWrite
        /\ IsErr(proc[p].err)
        /\ proc[p].r.err # NoErr
        /\ \E i \in 1..Len(wins) : wins[i] = <<proc[p].req.Key, proc[p].req.ETag[1]>>

\* C11.  Malformed requests are rejected with an error and store nothing: a
\* Set with an empty key, an empty string for value, a TTL below -1 or one
\* that is no integer, or FirstWrite without ETag; a Delete with an empty
\* key or FirstWrite without ETag.  A Set with a nil value, or with a TTL
\* of -1, 0 or more, that has a key and carries no ETag, is accepted.
C11_MalformedSet(req) ==
    \/ req.Key = ""
    \/ req.Value = Str(<<>>)
    \/ ~ValidTTL(req)
    \/ req.Concurrency = FirstWrite /\ ~HasETag(req)
C11_MalformedDelete(req) ==
    \/ req.Key = ""
    \/ req.Concurrency = FirstWrite /\ ~HasETag(req)
C11_AcceptableSet(req) ==
    /\ req.Key # ""
    /\ req.Value = NilValue \/ (req.Value.type = "string" /\ req.Value.s # <<>>)
    /\ ValidTTL(req)
    /\ req.Concurrency \in {"", LastWrite}
    /\ ~HasETag(req)
C11_Rejected == IsErr(last.err) /\ table = last.pre
C11_MalformedRejected ==
    /\ (last.op = "Set" /\ C11_MalformedSet(last.req)) => C11_Rejected
    /\ (last.op = "Delete" /\ C11_MalformedDelete(last.req)) => C11_Rejected
    /\ (last.op = "Set" /\ last.fault = NoFault /\ C11_AcceptableSet(last.req))
           => ~IsErr(last.err)
\* A Set with a TTL below -1 or no integer, of a key that has a row.
C11_Witness ==
    /\ last.op = "Set"
    /\ last.fault = NoFault
    /\ ~ValidTTL(last.req)
    /\ last.req.Key \in DOMAIN last.pre

\* C16.  Init fails fast and keeps no partial state: when Init returns an
\* error no Reclaimer has been started, no database handle that the call
\* opened is left open, and the engine is as it was before the call.
C16_InitFailed == last.op = "Init" /\ IsErr(last.err)
C16_OpenedByCall ==
    {i \in 1..Len(sqlite.handles) : i > Len(last.pre.sqlite.handles)}
C16_NoPartialState ==
    C16_InitFailed =>
        /\ reclaimers = last.pre.reclaimers
        /\ \A i \in C16_OpenedByCall : sqlite.handles[i] = "closed"
        /\ a = last.pre.a

\* The part of C16 on the handle alone: a failed Init leaves open no handle
\* that it opened.
C16_NoHandleLeftOpen ==
    C16_InitFailed => \A i \in C16_OpenedByCall : sqlite.handles[i] = "closed"

\* What holds of a failed Init: it starts no cleanup goroutine and creates
\* no table, and when it fails before sql.Open it touches no database.
C16_NoReclaimerStarted ==
    C16_InitFailed =>
        /\ reclaimers = last.pre.reclaimers
        /\ sqlite.tables = last.pre.sqlite.tables
        /\ last.err.msg \in {"invalid identifier", "illegal cleanupIntervalInSec value",
                              "missing connection string", "open"}
              => sqlite = last.pre.sqlite /\ a.db = last.pre.a.db

\* C17.  A configured table name is accepted iff it is not empty and has
\* only ASCII letters, digits and underscore; Init with any other name
\* that is not empty fails with the invalid-identifier error before a
\* handle is opened and before any SQL statement is issued, and no table
\* is ever created under another name.
C17_WellFormedName(name) ==
    /\ name # <<>>
    /\ \A i \in 1..Len(name) :
          name[i] \in (48..57) \cup (65..90) \cup (97..122) \cup {95}
C17_Configured ==
    /\ last.op = "Init"
    /\ last.req.tableName # Nil
    /\ last.req.tableName[1] # <<>>
C17_InvalidIdentifier == last.err = Err("invalid identifier")
C17_TableNameValidated ==
    /\ \A name \in sqlite.tables : C17_WellFormedName(name)
    /\ last.op = "Init" /\ C17_InvalidIdentifier => C17_Configured
    /\ C17_Configured =>
          /\ C17_InvalidIdentifier <=> ~C17_WellFormedName(last.req.tableName[1])
          /\ C17_InvalidIdentifier =>
                /\ sqlite = last.pre.sqlite
                /\ a.db = last.pre.a.db
                /\ reclaimers = last.pre.reclaimers
          /\ ~IsErr(last.err) =>
                /\ a.tableName = last.req.tableName[1]
                /\ last.req.tableName[1] \in sqlite.tables
\* Init with the table name a-b, after an Init that opened the database.
C17_Witness ==
    /\ C17_Configured
    /\ C17_InvalidIdentifier
    /\ last.req.tableName = Ptr(<<97, 45, 98>>)
    /\ last.pre.sqlite.handles # <<>>

\* C20.  A sweep deletes exactly the rows whose expiration is not null and
\* in the past (none when its transaction fails), never a row that is
\* live, and changes no row; Get of any key returns the same just before
\* and just after the sweep.
C20_Past(row) == row.expiration_time # NULL /\ row.expiration_time < now
C20_Deleted == DOMAIN last.pre \ DOMAIN table
C20_SweepDeletesOnlyExpired ==
    last.op = "cleanupTimeout" =>
        /\ DOMAIN table \subseteq DOMAIN last.pre
        /\ \A k \in DOMAIN table : table[k] = last.pre[k]
        /\ C20_Deleted \subseteq {k \in DOMAIN last.pre : C20_Past(last.pre[k])}
        /\ last.fault = NoFault => \A k \in DOMAIN table : ~C20_Past(table[k])
        /\ \A k \in C20_Deleted :
              last.pre[k].expiration_time # NULL /\ last.pre[k].expiration_time <= now
        /\ \A k \in Keys :
              Get(table, [Key |-> k], now) = Get(last.pre, [Key |-> k], now)
\* A sweep that deleted a row and left another.
C20_Witness ==
    /\ last.op = "cleanupTimeout"
    /\ C20_Deleted # {}
    /\ DOMAIN table # {}

\* C14.  Round trip: after a successful Set of a value v, text or bytes, on
\* a key, Get on that key returns bytes equal to v exactly.
C14_SetOf(type) ==
    /\ last.op = "Set"
    /\ ~IsErr(last.err)
    /\ last.req.Value.type = type
C14_GetReturns(bytes) ==
    Get(table, [Key |-> last.req.Key], now) =
        [err |-> NoErr, Data |-> Ptr(bytes), ETag |-> Ptr(table[last.req.Key].etag)]
C14_RoundTrip ==
    (C14_SetOf("string") \/ C14_SetOf("bytes")) => C14_GetReturns(last.req.Value.s)

\* What holds of the round trip: bytes come back exactly; of a text Get
\* returns its JSON encoding, quotes and escapes included.
C14_RoundTripOfBytes ==
    C14_SetOf("bytes") => C14_GetReturns(last.req.Value.s)
C14_RoundTripOfText ==
    C14_SetOf("string") =>
        /\ C14_GetReturns(Marshal(last.req.Value))
        /\ Unmarshal(Marshal(last.req.Value)) = [ok |-> TRUE, val |-> last.req.Value.s]
        /\ ~C14_GetReturns(last.req.Value.s)

\* C13.  As stated: Get returns an empty result without error when the key
\* has no row or an expired one, and an error only when decoding or the
\* database fails; for every other request, whatever its key, it succeeds.
\* (No row that Set wrote fails to decode.)
C13_Expired(row) == row.expiration_time # NULL /\ row.expiration_time <= now
C13_NoLiveRow(k) == k \notin DOMAIN table \/ C13_Expired(table[k])
C13_EmptyResult == last.resp.Data = Nil /\ last.resp.ETag = Nil
C13_AsStated ==
    last.op = "Get" =>
        /\ IsErr(last.err) => last.fault # NoFault
        /\ (last.fault = NoFault /\ C13_NoLiveRow(last.req.Key))
               => ~IsErr(last.err) /\ C13_EmptyResult

\* C13, amended.  The same for a Get with a key; a Get with an empty key
\* returns an error (missing key), before it asks the database.
C13_GetOutcome ==
    last.op = "Get" =>
        /\ IsErr(last.err) <=> (last.req.Key = "" \/ last.fault # NoFault)
        /\ (~IsErr(last.err) /\ C13_NoLiveRow(last.req.Key)) => C13_EmptyResult
        /\ (~IsErr(last.err) /\ ~C13_NoLiveRow(last.req.Key)) => ~C13_EmptyResult
\* A Get of a key whose row is expired and still in the table.
C13_Witness ==
    /\ last.op = "Get"
    /\ last.fault = NoFault
    /\ last.req.Key \in DOMAIN table
    /\ C13_Expired(table[last.req.Key])

\* C12.  A validation error on Set, Delete or ExecuteMulti is surfaced
\* before any transaction is opened: no transaction of the caller is open
\* at the moment its request is found to be malformed.
C12_ValidationErrors ==
    {Err("missing key in set option"), Err("missing key in delete operation"),
     Err("empty string is not allowed in set operation"), Err("error in parsing TTL"),
     Err("when FirstWrite is to be enforced, a value must be provided for the ETag"),
     Err("unrecognized concurrency model")}
C12_FoundMalformed(p) ==
    /\ proc[p].pc = "executed"
    /\ proc[p].r.err \in C12_ValidationErrors
C12_NoTransactionAtValidation ==
    \A p \in Callers : C12_FoundMalformed(p) => ~proc[p].open

\* C19.  Lock discipline: at most one of Set, Delete, ExecuteMulti and a
\* sweep is inside its critical section, and none while a Get is reading;
\* a transaction is open only inside a critical section, so no Get reads
\* while a batch is partially applied or a write is uncommitted.
C19_Writers == {p \in Procs : proc[p].pc \in {"locked", "begun", "executed", "returning"}}
C19_Readers == {p \in Callers : proc[p].pc \in {"rlocked", "queried"}}
C19_LockDiscipline ==
    /\ Cardinality(C19_Writers) <= 1
    /\ C19_Writers # {} => C19_Readers = {}
    /\ \A p \in Procs : proc[p].open => p \in C19_Writers
    /\ \A p \in Procs : proc[p].open /\ proc[p].r.tbl # table => C19_Readers = {}
\* Two Gets read at the same time, while the sweep has announced itself
\* and waits for them to leave.
C19_Witness ==
    /\ C19_Readers = Callers
    /\ lock.pending = Reclaimer

\* C18.  No transaction or lock outlives its operation: when Set, Delete,
\* ExecuteMulti or a sweep is about to return, its transaction is committed
\* or rolled back, and it was committed only if every step succeeded (the
\* table is then what the transaction wrote, and otherwise what it was
\* when the transaction began); a goroutine outside any method holds no
\* lock; and every goroutine that waits for the lock gets it.
C18_Outside(p) == proc[p].pc \in {"idle", "waiting", "rwaiting", "exited"}
C18_Closed(p) ==
    /\ C18_Outside(p) => ~proc[p].open /\ lock.writer # p /\ p \notin lock.readers
    /\ proc[p].pc = "returning" => ~proc[p].open
C18_CommittedOnlyOnSuccess(p) ==
    proc[p].pc = "returning" =>
        /\ IsErr(proc[p].err) => table = proc[p].tx
        /\ ~IsErr(proc[p].err) =>
              /\ ~IsErr(proc[p].r.err)
              /\ table = proc[p].r.tbl
              /\ proc[p].op = "ExecuteMulti" => proc[p].i > Len(proc[p].req)
C18_Waiting(p) == proc[p].pc \in {"waiting", "rwaiting"}
C18_Acquired(p) == proc[p].pc \in {"locked", "rlocked"}
C18_NothingOutlivesItsOperation ==
    /\ [](\A p \in Procs : C18_Closed(p) /\ C18_CommittedOnlyOnSuccess(p))
    /\ \A p \in Procs : C18_Waiting(p) ~> C18_Acquired(p)
\* A caller waits for the lock while the other has found its request
\* malformed inside its transaction.
C18_Witness ==
    \E p, q \in Callers :
        /\ proc[p].pc = "waiting"
        /\ C12_FoundMalformed(q)
        /\ proc[q].open

\* C15.  Once Close has been called the Reclaimer deletes no row, and its
\* loop exits, also when it took the tick with the cancellation ready;
\* once out it stays out.  Close can be called at any moment and any number
\* of times, and a Close after the first changes nothing.
C15_Closed == a.ctx = "cancelled"
C15_Exited == proc[Reclaimer].pc = "exited"
C15_ReclaimerStep ==
    (C15_Closed /\ proc'[Reclaimer] # proc[Reclaimer]) => table' = table
C15_StaysOut == C15_Exited => C15_Exited'
C15_CloseAgain == (C15_Closed /\ DatabaseClosed) => (a' = a /\ sqlite' = sqlite)
C15_ClosedReclaimerStops ==
    /\ [][C15_ReclaimerStep /\ C15_StaysOut /\ C15_CloseAgain]_vars
    /\ [](ENABLED Engine_Close)
    /\ C15_Closed ~> C15_Exited
\* After Close the select took the tick: the sweep holds the lock, with a
\* row in the table whose expiration is in the past.
C15_Witness ==
    /\ C15_Closed
    /\ proc[Reclaimer].pc = "locked"
    /\ \E k \in DOMAIN table :
          table[k].expiration_time # NULL /\ table[k].expiration_time < now

\* C23.  creation_time is set when the row of a key is inserted and is the
\* same after every later successful Set of the key, on the INSERT OR
\* REPLACE path and on the UPDATE path; update_time is the time of the last
\* successful Set; update_time >= creation_time in every row.
C23_SetSucceeded == last.op = "Set" /\ ~IsErr(last.err)
C23_CreationTime(k) ==
    IF k \in DOMAIN last.pre THEN last.pre[k].creation_time ELSE now
C23_CreationTimeKept ==
    /\ \A k \in DOMAIN table : table[k].update_time >= table[k].creation_time
    /\ C23_SetSucceeded =>
          /\ last.req.Key \in DOMAIN table
          /\ table[last.req.Key].creation_time = C23_CreationTime(last.req.Key)
          /\ table[last.req.Key].update_time = now
\* A Set with the ETag of a row that was inserted at an earlier time.
C23_Witness ==
    /\ C23_SetSucceeded
    /\ HasETag(last.req)
    /\ last.req.Key \in DOMAIN last.pre
    /\ last.pre[last.req.Key].creation_time < now

\* C24.  A successful ExecuteMulti leaves the table that its upserts and
\* deletes leave when they are sent one after another, in the order of the
\* batch, as single Set and Delete calls at the same time of the clock:
\* every operation sees what the operations before it wrote.
C24_Single(tbl, op, n, t) ==
    IF op.Operation = Upsert THEN Set(tbl, op.Request, n, t, NoFault)
    ELSE IF op.Operation = DeleteOp THEN Delete(tbl, op.Request, NoFault)
    ELSE [err |-> NoErr, tbl |-> tbl, uuids |-> 0]
RECURSIVE C24_OneByOne(_, _, _, _, _)
C24_After(out, reqs, i, n, t) ==
    IF IsErr(out.err) THEN out ELSE C24_OneByOne(out.tbl, reqs, i + 1, n + out.uuids, t)
C24_OneByOne(tbl, reqs, i, n, t) ==
    IF i > Len(reqs) THEN [err |-> NoErr, tbl |-> tbl, uuids |-> 0]
    ELSE C24_After(C24_Single(tbl, reqs[i], n, t), reqs, i, n, t)
C24_BatchSucceeded == last.op = "ExecuteMulti" /\ ~IsErr(last.err)
C24_BatchIsCallsInOrder ==
    C24_BatchSucceeded =>
        C24_OneByOne(last.pre, last.req, 1, nextUUID - Upserts(last.req), now)
            = [err |-> NoErr, tbl |-> table, uuids |-> 0]
\* Delete then upsert of a key that had an older row: the key is present,
\* and its row is a new one, inserted after the delete.
C24_Witness ==
    /\ C24_BatchSucceeded
    /\ Len(last.req) = 2
    /\ last.req[1].Operation = DeleteOp /\ last.req[1].Request.Key = "a"
    /\ last.req[2].Operation = Upsert /\ last.req[2].Request.Key = "a"
    /\ "a" \in DOMAIN last.pre
    /\ last.pre["a"].creation_time < now
    /\ "a" \in DOMAIN table
    /\ table["a"].creation_time = now

\* C25.  BulkSet of n Set requests, and BulkDelete of n Delete requests,
\* return the error and leave the table that ExecuteMulti returns and
\* leaves on the batch of those n upserts (deletes) in order, all of them
\* or none: the n zero-valued operations at the head of the slice are
\* skipped without error and without effect.
C25_Batch ==
    [i \in 1..Len(last.req) |->
        IF last.op = "BulkSet" THEN OpSet(last.req[i]) ELSE OpDelete(last.req[i])]
C25_Fault ==
    IF last.fault.at = "exec" THEN [at |-> "exec", op |-> last.fault.op - Len(last.req)]
    ELSE last.fault
C25_Before == IF IsErr(last.err) THEN nextUUID ELSE nextUUID - Upserts(C25_Batch)
C25_BulkReturned == last.op \in {"BulkSet", "BulkDelete"}
C25_BulkIsOneBatch ==
    C25_BulkReturned =>
        /\ ExecuteMulti(last.pre, C25_Batch, C25_Before, now, C25_Fault).err = last.err
        /\ ExecuteMulti(last.pre, C25_Batch, C25_Before, now, C25_Fault).tbl = table
        /\ IsErr(last.err) => table = last.pre
\* A BulkSet of two requests on an empty table: both rows are written.
C25_Witness ==
    /\ last.op = "BulkSet"
    /\ ~IsErr(last.err)
    /\ Len(last.req) = 2
    /\ last.req[1].Key # last.req[2].Key
    /\ last.pre = <<>>
    /\ DOMAIN table = {last.req[1].Key, last.req[2].Key}

\* C26.  A Set under FirstWrite, or a Delete with an ETag, of a key whose
\* row is expired and not yet swept returns what the same call returns once
\* the sweep has removed the row, and leaves no row of the key that Get
\* would answer with.
C26_Expired(tbl, k) ==
    /\ k \in DOMAIN tbl
    /\ tbl[k].expiration_time # NULL
    /\ tbl[k].expiration_time < now
C26_Swept == cleanupTimeoutStmtTpl(last.pre, now).tbl
C26_OnExpiredRow ==
    /\ \/ SetReturned /\ last.req.Concurrency = FirstWrite
       \/ DeleteReturned /\ HasETag(last.req)
    /\ C26_Expired(last.pre, last.req.Key)
C26_AfterSweep ==
    IF last.op = "Set" THEN Set(C26_Swept, last.req, nextUUID, now, NoFault)
    ELSE Delete(C26_Swept, last.req, NoFault)
C26_SweepIndependent ==
    C26_OnExpiredRow =>
        /\ last.err = C26_AfterSweep.err
        /\ IsErr(last.err)
        /\ last.req.Key \in DOMAIN table => ~Live(table[last.req.Key], now)

\* C22.  Close while a sweep is in flight does not abort the transaction of
\* the sweep: a sweep whose DELETE ran without error inside a transaction
\* that was begun before Close can still commit.
C22_InFlight ==
    /\ proc[Reclaimer].pc = "executed"
    /\ proc[Reclaimer].open
    /\ ~IsErr(proc[Reclaimer].r.err)
C22_Commits == Sweep_Commit /\ ~IsErr(proc'[Reclaimer].err)
C22_CloseLeavesSweepToCommit ==
    (C22_InFlight /\ ctx_Done) => ENABLED C22_Commits

\* C21.  With a cleanup interval that is positive, or absent, and the
\* engine not closed, sweeps keep occurring: a sweep that fails at BeginTx,
\* Exec or Commit changes no error of a caller and nothing of the table,
\* and the next tick starts another; a sweep that commits has deleted
\* every row that was past its expiration when its DELETE ran.  With an
\* interval of zero or below no sweep ever occurs.
C21_Configured == a.metadata.cleanupIntervalInSeconds
C21_NonPositive ==
    /\ C21_Configured # Nil
    /\ C21_Configured[1] # <<>>
    /\ C21_Configured[1][1] = "-" \/ Significant(C21_Configured[1]) = <<>>
C21_Sweeping == proc[Reclaimer].pc = "locked"
C21_Past(row) == row.expiration_time # NULL /\ row.expiration_time < now
C21_SweepStep ==
    proc'[Reclaimer] # proc[Reclaimer] =>
        /\ \A c \in Callers : proc'[c].err = proc[c].err
        /\ last' = last
        /\ IsErr(proc'[Reclaimer].err) \/ IsErr(proc'[Reclaimer].r.err) => table' = table
        /\ table' # table => table' = proc[Reclaimer].r.tbl
        /\ (proc[Reclaimer].pc = "begun" /\ ~IsErr(proc'[Reclaimer].r.err)) =>
              \A k \in DOMAIN table :
                  k \in DOMAIN proc'[Reclaimer].r.tbl <=> ~C21_Past(table[k])
C21_SweepsKeepOccurring ==
    /\ [][C21_SweepStep]_vars
    /\ [](C21_NonPositive => proc[Reclaimer] = Idle)
    /\ []<>(C21_NonPositive \/ ctx_Done \/ C21_Sweeping)

\* What holds of C21: the same, for the intervals whose Duration did not
\* wrap below zero.
C21_SweepsKeepOccurringUnlessWrapped ==
    /\ [][C21_SweepStep]_vars
    /\ [](C21_NonPositive => proc[Reclaimer] = Idle)
    /\ []<>(C21_NonPositive \/ a.cleanupInterval = Ptr(Wrapped) \/ ctx_Done \/ C21_Sweeping)

==========================================================================
